---------------------------- MODULE Spec2Model ----------------------------
(***************************************************************************)
(* A model of the capture-to-storage path of jotx: the SQLite store of     *)
(* src/src/db/mod.rs, the queued writer of src/src/db/db_writer.rs, and    *)
(* the capture layer (src/src/main.rs, src/src/shell/shell_mon.rs,         *)
(* src/src/clipboard/clip_mon.rs, src/src/plugin/plugin_manager.rs).       *)
(*                                                                         *)
(* Three specifications share the store operators:                         *)
(*   Spec         calls of the Database API (insert_shell, insert_clipboard)*)
(*   SpecWriter   producers, the bounded channel and worker_thread         *)
(*   SpecCapture  capture_command, the history sweep and ClipMon::check    *)
(***************************************************************************)
EXTENDS Integers, Sequences, FiniteSets, TLC

(***************************************************************************)
(* Bounds of the model.                                                    *)
(***************************************************************************)
\* insert_shell / insert_clipboard calls explored by Spec
MaxCalls == 3
\* advances of the wall clock explored
MaxTicks == 1
\* items handed to the writer's channel by SpecWriter
MaxItems == 2
\* capacity of the channel; the program's is bounded(1000), db_writer.rs:39
QueueCap == 1
\* batch_size of worker_thread; the program's is 10, db_writer.rs:115
BatchSize == 2
\* statement errors injected into the writer's store calls by SpecWriter
MaxFaults == 3
\* captures, sweeps of one command and clipboard polls explored by SpecCapture
MaxOps == 2
\* max_hot_cache_size of the fingerprint cache; the program's is 100, cache.rs:49
HotCap == 2
\* asks and cache calls explored by SpecAsk
MaxAsks == 3
MaxAskFaults == 1
MaxProcs == 4
\* SpecSearch: rows inserted before the searches
MaxRows == 2
\* SpecCache: calls of the cache's methods
MaxCacheOps == 4
\* SpecPlugins: registered plugins
MaxPlugins == 2
\* SpecRank: candidate rows of one search
MaxCands == 23
\* SpecFingerprint: words of a generated query
MaxWords == 2

(***************************************************************************)
(* Program constants.                                                      *)
(***************************************************************************)
ASSOCIATION_DEPTH == 3
CLEAN_SESSIONS_DAYS == 90
CLEAN_OLD_ASSOCIATIONS_DAYS == 30
SESSION_TIMEOUT == 300
max_retries == 3

\* Inputs.  NoHost is SQL NULL / Rust None in the host column.
Contents == {"ls", "cd"}
NoHost == "<null>"
\* no query: Option::None of a lookup
NoQuery == <<"<none>">>
Hosts == {"alice", "bob"}
HostArgs == Hosts \cup {NoHost}
ClockSteps == {SESSION_TIMEOUT}
\* and a step past the age at which sessions are collected
MaintClockSteps == {SESSION_TIMEOUT, 91 * 24 * 60 * 60}
\* the embedding argument: absent, or the encoder's vector
Embeddings == {"NULL", "blob"}

VARIABLES
    \* ---- the store (one SQLite file shared by every connection)
    entries,              \* table entries: a set of rows
    command_sessions,     \* table command_sessions: a set of rows
    command_associations, \* table command_associations: a set of rows
    next_id,              \* AUTOINCREMENT counter of entries
    entries_fts,          \* the index of entries_fts: a set of indexed documents
    now,                  \* wall clock, seconds
    \* ---- observation of the Database API calls
    upserts,              \* (content, host) -> insert_shell calls that ran their upsert
    n_calls,              \* API calls made so far
    ticks,                \* clock advances made so far
    \* ---- the writer (db_writer.rs)
    queue,                \* the bounded channel, oldest first
    senders,              \* producer -> where it is in DbWriter::insert_*
    wpc,                  \* worker_thread's position
    batch,                \* worker_thread's batch
    cur,                  \* the entry process_batch is handling
    attempt,              \* process_*_entry's attempt counter
    waits,                \* the sleeps (ms) taken for cur so far
    daemon,               \* the process: running, exited
    \* ---- observation of the writer
    next_seq,             \* next arrival number of the channel
    cur_fx,               \* what the attempts for cur wrote so far
    settled,              \* the entries the writer finished, in order
    batch_no,             \* batches taken so far
    n_faults,             \* store errors injected so far
    \* ---- the monitors (clip_mon.rs, shell_mon.rs)
    last_clip,            \* ClipMon.last_clip
    last_context,         \* ClipMon.last_context
    sweeper,              \* the thread inside read_all_histories
    \* ---- observation of the monitors
    obs,                  \* what the last capture, sweep, poll or maintenance did
    \* ---- maintenance (~/.jotx/.last_maintenance)
    last_maintenance,     \* the time written in the file; NoFile
    \* ---- the query path (cache.rs, manager.rs, ask_handler.rs)
    cache_db,             \* table fingerprint_cache: a set of rows
    hot_cache,            \* FingerprintCache.hot_cache, in push order
    llm_model,            \* LlmManager.model is Some
    ask_obs,              \* what the last ask or cache call did
    intent_io,            \* a query and what classify_intent returned for it
    \* ---- the service (pid_controller.rs, main.rs)
    pid_file,             \* the pid written in PID_FILE; NoPid when there is no file
    procs,                \* pid -> the process of that pid: its command and position
    \* ---- observation of the search path and of the privacy filter
    search_obs,           \* what the last search, display or sampling call did
    filter_io,            \* a captured command, the pattern lists and the verdict
    hook_io,              \* one hook event: the plugins, the calls, the hub's answer
    rank_io,              \* the candidate rows of one search and the list returned
    \* ---- the capture toggles and run_service
    settings,             \* GLOBAL_SETTINGS: the three capture toggles
    service_pc,           \* run_service: at its initial history load, or in its loops
    \* ---- observation of QueryFingerprint::similarity
    fp_io                 \* two queries, their fingerprints, their similarity

storeVars == <<entries, command_sessions, command_associations, next_id, now,
               entries_fts>>
apiVars == <<upserts, n_calls, ticks>>
writerVars == <<queue, senders, wpc, batch, cur, attempt, waits, daemon,
                next_seq, cur_fx, settled, batch_no, n_faults>>
captureVars == <<last_clip, last_context, sweeper, obs>>
maintVars == <<last_maintenance>>
askVars == <<cache_db, hot_cache, llm_model, ask_obs, intent_io>>
pidVars == <<pid_file, procs>>
ioVars == <<search_obs, filter_io, hook_io, rank_io, settings, service_pc, fp_io>>
vars == <<entries, command_sessions, command_associations, next_id, now,
          entries_fts,
          upserts, n_calls, ticks,
          queue, senders, wpc, batch, cur, attempt, waits, daemon,
          next_seq, cur_fx, settled, batch_no, n_faults,
          last_clip, last_context, sweeper, obs, last_maintenance,
          cache_db, hot_cache, llm_model, ask_obs, intent_io,
          pid_file, procs, search_obs, filter_io, hook_io, rank_io, settings, service_pc, fp_io>>

(***************************************************************************)
(* Small helpers.                                                          *)
(***************************************************************************)
Max(S) == CHOOSE x \in S : \A y \in S : y <= x
Min(S) == CHOOSE x \in S : \A y \in S : x <= y

ShellRows(es) == {e \in es : e.entry_type = "shell"}
ClipRows(es) == {e \in es : e.entry_type = "clipboard"}

(***************************************************************************)
(* Database::insert_shell, first statement: the rows that                  *)
(*   entry_type = 'shell' AND content = ?1                                 *)
(*   AND (host = ?2 OR (host IS NULL AND ?2 IS NULL))                      *)
(* selects.  In SQL host = NULL is never true, which is what the second    *)
(* disjunct repairs.                                                       *)
(***************************************************************************)
ShellMatchContentOnly(es, content, host) ==
    {e \in es : e.entry_type = "shell" /\ e.content = content}

ShellMatchNoNullClause(es, content, host) ==
    {e \in es : /\ e.entry_type = "shell"
                /\ e.content = content
                /\ e.host # NoHost /\ host # NoHost /\ e.host = host}

ShellMatch(es, content, host) ==
    {e \in es : /\ e.entry_type = "shell"
                /\ e.content = content
                /\ \/ (e.host # NoHost /\ host # NoHost /\ e.host = host)
                   \/ (e.host = NoHost /\ host = NoHost)}

\* query_row(...).ok(): the first selected row's id, or None (0)
ExistingId(es, content, host) ==
    LET m == ShellMatch(es, content, host)
    IN IF m = {} THEN 0 ELSE Min({e.id : e \in m})

(***************************************************************************)
(* The UPDATE and the INSERT of insert_shell.  A row carries the columns   *)
(* the program reads or rewrites; created_at is written once by its        *)
(* DEFAULT and never read, and is left out.                                *)
(***************************************************************************)
\* a row losing one run instead of gaining one
LowerRow(es, id, ts, t) ==
    {IF e.id = id
     THEN [e EXCEPT !.times_run = @ - 1, !.updated_at = t, !.timestamp = ts]
     ELSE e : e \in es}

BumpRow(es, id, ts, t) ==
    {IF e.id = id
     THEN [e EXCEPT !.times_run = @ + 1, !.updated_at = t, !.timestamp = ts]
     ELSE e : e \in es}

NewShellRow(id, content, ts, host, emb, t) ==
    [id |-> id, entry_type |-> "shell", content |-> content, timestamp |-> ts,
     times_run |-> 1, host |-> host, embedding |-> emb, updated_at |-> t]

NewClipRow(id, content, ts, emb, t) ==
    [id |-> id, entry_type |-> "clipboard", content |-> content, timestamp |-> ts,
     times_run |-> 1, host |-> NoHost, embedding |-> emb, updated_at |-> t]

(***************************************************************************)
(* Database::get_or_create_session_id: the session of the most recent      *)
(* session row when it is less than SESSION_TIMEOUT old, else a new id     *)
(* "session_<now>" (modelled by the number now).                           *)
(***************************************************************************)
session_id_within_timeout(ss, t) ==
    IF ss = {} THEN t
    ELSE LET last_time == Max({s.timestamp : s \in ss})
             last == CHOOSE s \in ss : s.timestamp = last_time
         IN IF t - last_time <= SESSION_TIMEOUT THEN last.session_id ELSE t

get_or_create_session_id(ss, t) ==
    IF ss = {} THEN t
    ELSE LET last_time == Max({s.timestamp : s \in ss})
             last == CHOOSE s \in ss : s.timestamp = last_time
         IN IF t - last_time < SESSION_TIMEOUT THEN last.session_id ELSE t

\* COALESCE(MAX(position), -1) + 1
NextPosition(ss, sid) ==
    LET ps == {s.position : s \in {r \in ss : r.session_id = sid}}
    IN IF ps = {} THEN 0 ELSE Max(ps) + 1

\* entry ids at positions [position - ASSOCIATION_DEPTH, position) of the
\* session, ORDER BY position DESC
RECURSIVE DescByPosition(_)
DescByPosition(rows) ==
    IF rows = {} THEN <<>>
    ELSE LET top == CHOOSE r \in rows : \A o \in rows : o.position <= r.position
         IN <<top.entry_id>> \o DescByPosition(rows \ {top})

RecentCommands(ss, sid, position) ==
    DescByPosition({s \in ss : /\ s.session_id = sid
                               /\ s.position < position
                               /\ s.position >= position - ASSOCIATION_DEPTH})

\* INSERT ... ON CONFLICT(command_a_id, command_b_id, sequence_order) DO UPDATE
UpsertEdge(as, a, b, ord, t) ==
    IF \E x \in as : x.a = a /\ x.b = b /\ x.ord = ord
    THEN {IF x.a = a /\ x.b = b /\ x.ord = ord
          THEN [x EXCEPT !.strength = @ + 1, !.last_seen = t]
          ELSE x : x \in as}
    ELSE as \cup {[a |-> a, b |-> b, ord |-> ord, strength |-> 1, last_seen |-> t]}

\* the for loop of track_associations_only over recent_commands, stopped
\* before the iteration whose statement fails (stop_at; 0: never)
RECURSIVE EdgeLoop(_, _, _, _, _, _)
EdgeLoop(as, recent, idx, entry_id, t, stop_at) ==
    IF idx > Len(recent) \/ idx = stop_at THEN as
    ELSE EdgeLoop(UpsertEdge(as, recent[idx], entry_id, Len(recent) - (idx - 1), t),
                  recent, idx + 1, entry_id, t, stop_at)

(***************************************************************************)
(* Database::insert_shell as a function of the store.  The connection is   *)
(* in autocommit mode: every statement commits on its own.  fault names    *)
(* the statement that returns an error (the ? operator returns it to the   *)
(* caller at once):                                                        *)
(*   0 none, 1 the UPDATE/INSERT of entries, 2 the statements of           *)
(*   track_associations_only up to the INSERT of the session row,          *)
(*   2 + i the i-th edge statement.                                        *)
(* A fault beyond the statements the call executes does not happen.        *)
(***************************************************************************)
Faults == 0 .. (2 + ASSOCIATION_DEPTH)

insert_shell(db, content, ts, host, emb, t, fault) ==
    LET existing == ExistingId(db.entries, content, host)
        entry_id == IF existing # 0 THEN existing ELSE db.next_id
        es1 == IF existing # 0
               THEN BumpRow(db.entries, existing, ts, t)
               ELSE db.entries \cup {NewShellRow(db.next_id, content, ts, host, emb, t)}
        nid1 == IF existing # 0 THEN db.next_id ELSE db.next_id + 1
        sid == get_or_create_session_id(db.sessions, t)
        position == NextPosition(db.sessions, sid)
        ss1 == db.sessions \cup
                 {[entry_id |-> entry_id, session_id |-> sid,
                   position |-> position, timestamp |-> t]}
        recent == RecentCommands(ss1, sid, position)
        edge_fault == IF fault > 2 /\ fault - 2 <= Len(recent) THEN fault - 2 ELSE 0
        as1 == EdgeLoop(db.assocs, recent, 1, entry_id, t, edge_fault)
    IN  IF fault = 1
        THEN [entries |-> db.entries, sessions |-> db.sessions, assocs |-> db.assocs,
              next_id |-> db.next_id, ok |-> FALSE, upserted |-> FALSE,
              tracked |-> FALSE]
        ELSE IF fault = 2
        THEN [entries |-> es1, sessions |-> db.sessions, assocs |-> db.assocs,
              next_id |-> nid1, ok |-> FALSE, upserted |-> TRUE, tracked |-> FALSE]
        ELSE [entries |-> es1, sessions |-> ss1, assocs |-> as1,
              next_id |-> nid1, ok |-> edge_fault = 0, upserted |-> TRUE,
              tracked |-> TRUE]

(***************************************************************************)
(* Database::insert_clipboard: one INSERT, no lookup.                      *)
(***************************************************************************)
insert_clipboard(db, content, ts, emb, t, fault) ==
    IF fault # 0
    THEN [entries |-> db.entries, sessions |-> db.sessions, assocs |-> db.assocs,
          next_id |-> db.next_id, ok |-> FALSE]
    ELSE [entries |-> db.entries \cup {NewClipRow(db.next_id, content, ts, emb, t)},
          sessions |-> db.sessions, assocs |-> db.assocs,
          next_id |-> db.next_id + 1, ok |-> TRUE]

TheDb == [entries |-> entries, sessions |-> command_sessions,
          assocs |-> command_associations, next_id |-> next_id]

(***************************************************************************)
(* entries_fts, an FTS5 table with content='entries', and the triggers     *)
(* entries_ai, entries_ad, entries_au that write it.  The index holds, per *)
(* rowid, the text that was indexed: the content here; app_name,           *)
(* window_title and working_dir are written with it and, like it, changed  *)
(* by no UPDATE of the program.  To take a document out of the index, a    *)
(* DELETE or UPDATE of an external-content table reads the text to remove  *)
(* from the content table, as it is when the trigger runs.                 *)
(***************************************************************************)
FtsDoc(e) == [rowid |-> e.id, content |-> e.content]

\* what DELETE FROM entries_fts WHERE rowid = id takes out of the index,
\* table entries being es
FtsRemoved(es, id) == {FtsDoc(x) : x \in {y \in es : y.id = id}}

\* entries_ai: AFTER INSERT, new the inserted row
entries_ai(fts, new) == fts \cup {FtsDoc(new)}

\* entries_ad: AFTER DELETE, es the table without the deleted row old
entries_ad(fts, es, old) == fts \ FtsRemoved(es, old.id)

\* entries_au: AFTER UPDATE, es the table with the updated row new
entries_au(fts, es, new) == (fts \ FtsRemoved(es, new.id)) \cup {FtsDoc(new)}

\* the index after the statements that took table entries from es to es2:
\* each trigger fires once per row, and the rows have distinct ids
RECURSIVE FireAll(_, _, _, _)
FireAll(fts, es2, rows, kind) ==
    IF rows = {} THEN fts
    ELSE LET e == CHOOSE x \in rows : TRUE
             f == IF kind = "ad" THEN entries_ad(fts, es2, e)
                  ELSE IF kind = "au" THEN entries_au(fts, es2, e)
                  ELSE entries_ai(fts, e)
         IN FireAll(f, es2, rows \ {e}, kind)

Triggers(fts, es, es2) ==
    LET ids(rows) == {x.id : x \in rows}
        deleted == {e \in es : e.id \notin ids(es2)}
        inserted == {e \in es2 : e.id \notin ids(es)}
        updated == {e \in es2 : e.id \in ids(es) /\ e \notin es}
    IN FireAll(FireAll(FireAll(fts, es2, deleted, "ad"), es2, updated, "au"),
               es2, inserted, "ai")

SetDb(r) ==
    /\ entries' = r.entries
    /\ command_sessions' = r.sessions
    /\ command_associations' = r.assocs
    /\ next_id' = r.next_id
    /\ entries_fts' = Triggers(entries_fts, entries, r.entries)

(***************************************************************************)
(* The writer, db_writer.rs.  DB_WRITER is a process-wide Lazy<DbWriter>:  *)
(* new() makes the bounded channel and spawns worker_thread detached; the  *)
(* Sender lives in the static and is never dropped, so the channel is      *)
(* disconnected only from the receiving side, when worker_thread returns.  *)
(***************************************************************************)
Producers == {"p1", "p2"}
NoItem == [seq |-> 0, kind |-> "none", content |-> "", host |-> NoHost,
           timestamp |-> 0]
NoFx == [upserts |-> 0, sessions |-> 0, full |-> 0, emb |-> "NULL"]
Idle == [pc |-> "idle", item |-> NoItem]

\* DbEntry::Shell / DbEntry::Clipboard as the producer builds it
DbEntry(kind, content, host, ts) ==
    [seq |-> 0, kind |-> kind, content |-> content,
     host |-> IF kind = "shell" THEN host ELSE NoHost, timestamp |-> ts]

InitWriter ==
    /\ queue = <<>>
    /\ senders = [p \in Producers |-> Idle]
    /\ wpc = "start"
    /\ batch = <<>>
    /\ cur = NoItem
    /\ attempt = 0
    /\ waits = <<>>
    /\ daemon = "running"
    /\ next_seq = 1
    /\ cur_fx = NoFx
    /\ settled = <<>>
    /\ batch_no = 0
    /\ n_faults = 0

\* the receiver has been dropped
Disconnected == wpc = "gone"

\* the message enters the channel and gets its arrival number
Enqueue(q, item, n) == Append(q, [item EXCEPT !.seq = n])

\* Sender::send on the bounded channel (DbWriter::insert_shell and
\* insert_clipboard): Err at once when the channel is disconnected, the
\* message queued when there is room, and otherwise the calling thread is
\* parked until there is room or the channel is disconnected.
Send(p, item) ==
    /\ daemon # "exited"
    /\ senders[p].pc = "idle"
    /\ next_seq <= MaxItems
    /\ IF Disconnected
       THEN /\ senders' = [senders EXCEPT ![p] = Idle]
            /\ UNCHANGED <<queue, next_seq>>
       ELSE IF Len(queue) < QueueCap
       THEN /\ queue' = Enqueue(queue, item, next_seq)
            /\ next_seq' = next_seq + 1
            /\ senders' = [senders EXCEPT ![p] = Idle]
       ELSE /\ senders' = [senders EXCEPT ![p] =
                              [pc |-> "blocked", item |-> item]]
            /\ UNCHANGED <<queue, next_seq>>
    /\ UNCHANGED <<wpc, batch, cur, attempt, waits, daemon, cur_fx, settled,
                   batch_no, n_faults, storeVars, apiVars,
                   captureVars, maintVars, askVars, pidVars, ioVars>>

\* a parked send wakes up
SendWakes(p) ==
    /\ daemon # "exited"
    /\ senders[p].pc = "blocked"
    /\ \/ /\ Disconnected
          /\ senders' = [senders EXCEPT ![p] = Idle]
          /\ UNCHANGED <<queue, next_seq>>
       \/ /\ ~Disconnected
          /\ Len(queue) < QueueCap
          /\ queue' = Enqueue(queue, senders[p].item, next_seq)
          /\ next_seq' = next_seq + 1
          /\ senders' = [senders EXCEPT ![p] = Idle]
    /\ UNCHANGED <<wpc, batch, cur, attempt, waits, daemon, cur_fx, settled,
                   batch_no, n_faults, storeVars, apiVars,
                   captureVars, maintVars, askVars, pidVars, ioVars>>

\* worker_thread opens its own connection; on error it returns, which drops
\* the Receiver
WorkerStart(db_ok) ==
    /\ daemon # "exited"
    /\ wpc = "start"
    /\ wpc' = IF db_ok THEN "recv" ELSE "gone"
    /\ UNCHANGED <<queue, senders, batch, cur, attempt, waits, daemon, next_seq,
                   cur_fx, settled, batch_no, n_faults, storeVars, apiVars,
                   captureVars, maintVars, askVars, pidVars, ioVars>>

\* what recv_timeout / try_recv take from the channel: its oldest message
Recv(q) == [item |-> Head(q), rest |-> Tail(q)]

\* recv_timeout(batch_timeout) returns Ok(entry)
WorkerRecv ==
    /\ daemon # "exited"
    /\ wpc = "recv"
    /\ queue # <<>>
    /\ batch' = Append(batch, Recv(queue).item)
    /\ queue' = Recv(queue).rest
    /\ batch_no' = batch_no + 1
    /\ wpc' = "collect"
    /\ UNCHANGED <<senders, cur, attempt, waits, daemon, next_seq, cur_fx,
                   settled, n_faults, storeVars, apiVars,
                   captureVars, maintVars, askVars, pidVars, ioVars>>

\* recv_timeout returns Timeout: the batch is empty at the top of the loop
\* (process_batch drains it), so nothing is flushed
WorkerTimeout ==
    /\ daemon # "exited"
    /\ wpc = "recv"
    /\ queue = <<>>
    /\ batch = <<>>
    /\ UNCHANGED vars

\* while batch.len() < batch_size { try_recv() }: the loop as a whole takes
\* the entries that are in the channel, oldest first, up to the batch size
RECURSIVE CollectPushFront(_, _)
CollectPushFront(b, q) ==
    IF Len(b) < BatchSize /\ q # <<>>
    THEN CollectPushFront(<<Recv(q).item>> \o b, Recv(q).rest)
    ELSE [batch |-> b, queue |-> q]

RECURSIVE Collect(_, _)
Collect(b, q) ==
    IF Len(b) < BatchSize /\ q # <<>>
    THEN Collect(Append(b, Recv(q).item), Recv(q).rest)
    ELSE [batch |-> b, queue |-> q]

WorkerCollect ==
    /\ daemon # "exited"
    /\ wpc = "collect"
    /\ batch' = Collect(batch, queue).batch
    /\ queue' = Collect(batch, queue).queue
    /\ wpc' = "process"
    /\ UNCHANGED <<senders, cur, attempt, waits, daemon, next_seq, cur_fx,
                   settled, batch_no, n_faults, storeVars, apiVars,
                   captureVars, maintVars, askVars, pidVars, ioVars>>

\* process_batch: for entry in batch.drain(..); process_*_entry begins by
\* generate_embedding, whose failure is logged and leaves embedding = None
WorkerNext(emb) ==
    /\ daemon # "exited"
    /\ wpc = "process"
    /\ IF batch = <<>>
       THEN /\ wpc' = "recv"
            /\ UNCHANGED <<batch, cur, cur_fx>>
       ELSE /\ cur' = Head(batch)
            /\ batch' = Tail(batch)
            /\ cur_fx' = [NoFx EXCEPT !.emb = emb]
            /\ wpc' = "attempt"
    /\ attempt' = 0
    /\ waits' = <<>>
    /\ UNCHANGED <<queue, senders, daemon, next_seq, settled, batch_no,
                   n_faults, storeVars, apiVars,
                   captureVars, maintVars, askVars, pidVars, ioVars>>

\* Duration::from_millis(100 * 2_u64.pow(attempt - 1))
WaitMsFlat(n) == 100

WaitMs(n) == 100 * 2 ^ (n - 1)

Settle(outcome, n, fx) ==
    Append(settled, [seq |-> cur.seq, kind |-> cur.kind, outcome |-> outcome,
                     attempts |-> n, waits |-> waits, fx |-> fx,
                     batch |-> batch_no])

\* one turn of the retry loop of process_shell_entry / process_clipboard_entry
WorkerAttempt(fault) ==
    /\ daemon # "exited"
    /\ wpc = "attempt"
    /\ fault # 0 => n_faults < MaxFaults
    /\ LET r == IF cur.kind = "shell"
                THEN insert_shell(TheDb, cur.content, cur.timestamp, cur.host,
                                  cur_fx.emb, now, fault)
                ELSE insert_clipboard(TheDb, cur.content, cur.timestamp,
                                      cur_fx.emb, now, fault)
           wrote == IF cur.kind = "shell" THEN r.upserted ELSE r.ok
           tracked == IF cur.kind = "shell" THEN r.tracked ELSE r.ok
           fx == [cur_fx EXCEPT !.upserts = @ + (IF wrote THEN 1 ELSE 0),
                                !.sessions = @ + (IF tracked THEN 1 ELSE 0),
                                !.full = @ + (IF r.ok THEN 1 ELSE 0)]
       IN /\ SetDb(r)
          /\ IF r.ok
             THEN /\ settled' = Settle("ok", attempt + 1, fx)
                  /\ cur' = NoItem /\ cur_fx' = NoFx
                  /\ attempt' = 0 /\ waits' = <<>>
                  /\ wpc' = "process"
             ELSE IF attempt + 1 >= max_retries
             THEN /\ settled' = Settle("dropped", attempt + 1, fx)
                  /\ cur' = NoItem /\ cur_fx' = NoFx
                  /\ attempt' = 0 /\ waits' = <<>>
                  /\ wpc' = "process"
             ELSE /\ attempt' = attempt + 1
                  /\ waits' = Append(waits, WaitMs(attempt + 1))
                  /\ cur_fx' = fx
                  /\ UNCHANGED <<settled, cur, wpc>>
    /\ n_faults' = n_faults + (IF fault = 0 THEN 0 ELSE 1)
    /\ UNCHANGED <<queue, senders, batch, daemon, next_seq, batch_no,
                   now, apiVars, captureVars, maintVars, askVars, pidVars, ioVars>>

\* the process ends.  run_service's loop ends when is_running() turns
\* false; shutdown() runs the registered callbacks, remove_pid(), and main
\* returns.  Or the daemon is killed: stop_service sends it SIGTERM, the
\* Ctrl-C handler calls std::process::exit(130).  None of these touches the
\* writer: nothing joins worker_thread or waits for the channel to empty,
\* and the process's threads end where they are.
ProcessExit ==
    /\ daemon = "running"
    /\ daemon' = "exited"
    /\ UNCHANGED <<queue, senders, wpc, batch, cur, attempt, waits, next_seq,
                   cur_fx, settled, batch_no, n_faults, storeVars, apiVars,
                   captureVars, maintVars, askVars, pidVars, ioVars>>

(***************************************************************************)
(* The capture paths: capture_command (main.rs), the history sweep         *)
(* (ShellMon), the clipboard poller (ClipMon) and the plugin hub.          *)
(* Text is a sequence of one-character strings here, so that prefixes and  *)
(* case folding are computed.                                              *)
(***************************************************************************)
SERVICE_NAME == <<"j", "o", "t", "x">>
SERVICE_NAME_SHORT == <<"j", "s">>
SERVICE_NAME_SHORT2 == <<"j", "a">>

\* str::starts_with
starts_with(s, prefix) ==
    /\ Len(prefix) <= Len(s)
    /\ SubSeq(s, 1, Len(prefix)) = prefix

\* str::to_lowercase, on ASCII letters
UpperLetters ==
    <<"A", "B", "C", "D", "E", "F", "G", "H", "I", "J", "K", "L", "M",
      "N", "O", "P", "Q", "R", "S", "T", "U", "V", "W", "X", "Y", "Z">>
LowerLetters ==
    <<"a", "b", "c", "d", "e", "f", "g", "h", "i", "j", "k", "l", "m",
      "n", "o", "p", "q", "r", "s", "t", "u", "v", "w", "x", "y", "z">>

LowerChar(c) ==
    IF \E i \in 1 .. Len(UpperLetters) : UpperLetters[i] = c
    THEN LowerLetters[CHOOSE i \in 1 .. Len(UpperLetters) : UpperLetters[i] = c]
    ELSE c

to_lowercase(s) == [i \in 1 .. Len(s) |-> LowerChar(s[i])]

\* PluginAction, and "Err" for a hook that returned Err(..)
PluginActions == {"Continue", "Stop", "ModifyData", "Skip", "Err"}

\* a hub that gives up at a hook's Err as at Stop
RECURSIVE TriggerFromStrict(_, _)
TriggerFromStrict(answers, i) ==
    IF i > Len(answers) THEN TRUE
    ELSE IF answers[i] \in {"Stop", "Skip", "Err"} THEN FALSE
    ELSE TriggerFromStrict(answers, i + 1)

\* PluginManager::trigger_command_captured over the registered plugins'
\* answers, in registration order; from position i on
RECURSIVE TriggerFrom(_, _)
TriggerFrom(answers, i) ==
    IF i > Len(answers) THEN TRUE
    ELSE IF answers[i] \in {"Stop", "Skip"} THEN FALSE
    ELSE TriggerFrom(answers, i + 1)

trigger_command_captured(answers) == TriggerFrom(answers, 1)

\* a store call that was not made
NotCalled(db) ==
    [entries |-> db.entries, sessions |-> db.sessions, assocs |-> db.assocs,
     next_id |-> db.next_id, ok |-> TRUE, upserted |-> FALSE,
     tracked |-> FALSE]

\* ShellMon::add_to_db: insert_shell is called only in the Ok arm of
\* generate_embedding
ShellMon_add_to_db(db, content, ts, host, emb_ok, t, fault) ==
    IF emb_ok
    THEN insert_shell(db, content, ts, host, "blob", t, fault)
    ELSE NotCalled(db)

\* ShellMon::add_command: the error of add_to_db is printed
add_command(db, cmd, ts, host, emb_ok, t, fault) ==
    ShellMon_add_to_db(db, cmd, ts, host, emb_ok, t, fault)

\* ClipMon::add_to_db: generate_embedding(..)? returns before the insert
ClipMon_add_to_db(db, content, ts, emb_ok, t, fault) ==
    IF emb_ok
    THEN insert_clipboard(db, content, ts, "blob", t, fault)
    ELSE [NotCalled(db) EXCEPT !.ok = FALSE]

\* Database::get_shell_command_id: the ids the query can return (its WHERE
\* names the content only, and it has no ORDER BY)
get_shell_command_id(es, content) ==
    {e.id : e \in {x \in ShellRows(es) : x.content = content}}

\* Database::increment_shell_command
increment_shell_command(es, id, t) ==
    {IF e.id = id
     THEN [e EXCEPT !.times_run = @ + 1, !.updated_at = t]
     ELSE e : e \in es}

\* SimplifiedWindowInfo of the focused window; None
WindowInfos == {"Terminal", "Editor"}
NoContext == "<none>"

NoObs ==
    [op |-> "none", hook |-> "not_run", due |-> FALSE, emb_ok |-> TRUE,
     wrote |-> FALSE, fresh |-> FALSE, as_upsert |-> TRUE,
     caps |-> <<0, 0>>, cleaned |-> FALSE, before |-> {}, after |-> {},
     raw |-> <<>>, text |-> <<>>, folded |-> FALSE,
     steps |-> <<>>, last |-> 0, at |-> 0]

InitCapture ==
    /\ last_clip = <<>>
    /\ last_context = NoContext
    /\ sweeper = "ready"
    /\ obs = NoObs

(***************************************************************************)
(* The query path: classify_intent (intent.rs), the fingerprint cache      *)
(* (cache.rs) and ask (ask_handler.rs).                                    *)
(***************************************************************************)
\* str::contains
contains(s, sub) ==
    \E i \in 1 .. (Len(s) - Len(sub) + 1) : SubSeq(s, i, i + Len(sub) - 1) = sub

\* char::is_whitespace, on the characters the inputs use
is_whitespace(c) == c = " "

\* str::split_whitespace: the words of s from position i on, cur being the
\* word under construction
RECURSIVE SplitFrom(_, _, _)
SplitFrom(s, i, word) ==
    IF i > Len(s) THEN (IF word = <<>> THEN <<>> ELSE <<word>>)
    ELSE IF is_whitespace(s[i])
         THEN (IF word = <<>> THEN <<>> ELSE <<word>>) \o SplitFrom(s, i + 1, <<>>)
         ELSE SplitFrom(s, i + 1, Append(word, s[i]))

split_whitespace(s) == SplitFrom(s, 1, <<>>)

\* the literals of classify_intent
KnowledgePrefixes ==
    {<<"h", "o", "w", " ", "t", "o">>,
     <<"h", "o", "w", " ", "d", "o", " ", "i">>,
     <<"c", "o", "m", "m", "a", "n", "d", " ", "t", "o">>,
     <<"c", "o", "m", "m", "a", "n", "d", " ", "f", "o", "r">>,
     <<"w", "h", "a", "t", " ", "i", "s", " ", "t", "h", "e", " ",
       "c", "o", "m", "m", "a", "n", "d">>}

TemporalMarkers ==
    {<<"y", "e", "s", "t", "e", "r", "d", "a", "y">>,
     <<"l", "a", "s", "t", " ", "w", "e", "e", "k">>,
     <<"l", "a", "s", "t", " ", "m", "o", "n", "t", "h">>,
     <<"t", "o", "d", "a", "y">>,
     <<"a", "g", "o">>,
     <<"i", " ", "u", "s", "e", "d">>,
     <<"i", " ", "r", "a", "n">>,
     <<"i", " ", "d", "i", "d">>}

\* a classifier that lets a temporal marker win over a prefix
classify_marker_first(query) ==
    LET q == to_lowercase(query)
    IN IF \E m \in TemporalMarkers : contains(q, m) THEN "Retrieval"
       ELSE IF \E k \in KnowledgePrefixes : starts_with(q, k) THEN "Knowledge"
       ELSE "Retrieval"

\* classify_intent
classify_intent(query) ==
    LET q == to_lowercase(query)
    IN IF \E k \in KnowledgePrefixes : starts_with(q, k) THEN "Knowledge"
       ELSE IF \E m \in TemporalMarkers : contains(q, m) THEN "Retrieval"
       ELSE "Retrieval"

(***************************************************************************)
(* Fingerprints.  cache.rs uses QueryFingerprint::new(query, embedding)    *)
(* and a similarity over it that are not in the sources at hand; they are  *)
(* taken from the design: 0.6 cosine + 0.3 Jaccard(keywords) + 0.1 equal   *)
(* temporal bucket, here in hundredths.  Embeddings are unit vectors along *)
(* an axis, or the zero vector.                                            *)
(***************************************************************************)
StopWords ==
    {<<"t", "h", "e">>, <<"a">>, <<"a", "n">>, <<"i">>, <<"m", "e">>,
     <<"m", "y">>, <<"f", "r", "o", "m">>, <<"i", "n">>, <<"o", "n">>,
     <<"a", "t">>, <<"s", "h", "o", "w">>, <<"f", "i", "n", "d">>,
     <<"g", "e", "t">>, <<"l", "i", "s", "t">>, <<"g", "i", "v", "e">>,
     <<"u", "s", "e", "d">>, <<"r", "a", "n">>, <<"d", "i", "d">>}

\* every token a keyword, whatever its length and the stop list
extract_all_words(query) ==
    LET ws == split_whitespace(query) IN {ws[i] : i \in 1 .. Len(ws)}

\* extract_keywords
extract_keywords(query) ==
    LET ws == split_whitespace(query)
    IN {ws[i] : i \in {j \in 1 .. Len(ws) : ws[j] \notin StopWords /\ Len(ws[j]) > 2}}

\* extract_temporal
extract_temporal(query) ==
    IF contains(query, <<"y", "e", "s", "t", "e", "r", "d", "a", "y">>)
    THEN "Yesterday"
    ELSE IF contains(query, <<"t", "o", "d", "a", "y">>) THEN "Today"
    ELSE IF contains(query, <<"l", "a", "s", "t", " ", "w", "e", "e", "k">>)
    THEN "LastWeek"
    ELSE IF contains(query, <<"l", "a", "s", "t", " ", "m", "o", "n", "t", "h">>)
    THEN "LastMonth"
    ELSE "None"

\* the embedding model's vector for a text: the same for texts that differ
\* in case only
embed(text) ==
    IF to_lowercase(text) = <<"g", "i", "t", " ", "l", "o", "g">> THEN <<1, 0>>
    ELSE <<0, 1>>

QueryFingerprint(query, embedding) ==
    [query |-> query,
     keywords |-> extract_keywords(to_lowercase(query)),
     temporal |-> extract_temporal(to_lowercase(query)),
     embedding |-> embedding]

Dot(u, v) == u[1] * v[1] + u[2] * v[2]

\* cosine_similarity, in hundredths, of vectors of norm 0 or 1; 0 when a
\* norm is 0
Cosine(u, v) ==
    IF Dot(u, u) = 0 \/ Dot(v, v) = 0 THEN 0 ELSE 100 * Dot(u, v)

Jaccard(a, b) ==
    IF a \cup b = {} THEN 0
    ELSE (100 * Cardinality(a \cap b)) \div Cardinality(a \cup b)

similarity(f, g) ==
    (60 * Cosine(f.embedding, g.embedding)
     + 30 * Jaccard(f.keywords, g.keywords)
     + (IF f.temporal = g.temporal THEN 1000 ELSE 0)) \div 100

\* the threshold try_cache_lookup passes (0.90)
CACHE_THRESHOLD == 90

\* infer_entity_type
infer_entity_type(query) ==
    IF \/ contains(query, <<"c", "o", "m", "m", "a", "n", "d">>)
       \/ contains(query, <<"c", "m", "d">>)
    THEN "command"
    ELSE IF contains(query, <<"f", "i", "l", "e">>) THEN "file"
    ELSE IF contains(query, <<"b", "r", "a", "n", "c", "h">>) THEN "git"
    ELSE "None"

\* QueryFingerprint::from_query of fingerprint.rs, the fields that its
\* similarity reads
from_query(query) ==
    LET query_lower == to_lowercase(query)
    IN [keywords |-> extract_keywords(query_lower),
        temporal |-> extract_temporal(query_lower),
        entity_type |-> infer_entity_type(query_lower),
        negations |-> \/ contains(query_lower, <<"n", "o", "t">>)
                      \/ contains(query_lower, <<"w", "i", "t", "h", "o", "u", "t">>)]

\* QueryFingerprint::similarity of fingerprint.rs, in ten-thousandths:
\* 0.5 keyword overlap, 0.3 equal temporal, 0.15 equal entity type that is
\* Some, 0.05 equal negation
fingerprint_similarity(f, g) ==
    (IF f.keywords \cup g.keywords # {}
     THEN (5000 * Cardinality(f.keywords \cap g.keywords))
              \div Cardinality(f.keywords \cup g.keywords)
     ELSE 0)
    + (IF f.temporal = g.temporal THEN 3000 ELSE 0)
    + (IF f.entity_type = g.entity_type /\ f.entity_type # "None" THEN 1500 ELSE 0)
    + (IF f.negations = g.negations THEN 500 ELSE 0)

NoCompare == [op |-> "none", a |-> <<>>, b |-> <<>>, score |-> 0]

InitFingerprint == fp_io = NoCompare

(***************************************************************************)
(* FingerprintCache.  A cache is [db, hot]: the rows of fingerprint_cache  *)
(* and the hot list.  A record is [query, fingerprint, hit_count,           *)
(* last_used]; its plan is that of its query.                              *)
(***************************************************************************)
CacheRecord(query, fingerprint, hits, t) ==
    [query |-> query, fingerprint |-> fingerprint, hit_count |-> hits,
     last_used |-> t]

TheCache == [db |-> cache_db, hot |-> hot_cache]

\* FingerprintCache::update_hit_count: the UPDATE .. WHERE query = ?2
update_hit_count(db, query, t) ==
    {IF r.query = query
     THEN [r EXCEPT !.hit_count = @ + 1, !.last_used = t]
     ELSE r : r \in db}

\* the index max_by returns: the last one among the best-scoring
BestMatch(hot, fp) ==
    LET score(i) == similarity(fp, hot[i].fingerprint)
        ok == {i \in 1 .. Len(hot) : score(i) >= CACHE_THRESHOLD}
    IN IF ok = {} THEN 0
       ELSE Max({i \in ok : \A j \in ok : score(j) <= score(i)})

\* FingerprintCache::find_match.  fault: the UPDATE of update_hit_count
\* fails, which find_match ignores (let _ = ..)
find_match(c, fp, t, fault) ==
    LET idx == BestMatch(c.hot, fp)
    IN IF idx = 0 THEN [db |-> c.db, hot |-> c.hot, found |-> NoQuery]
       ELSE [db |-> IF fault THEN c.db
                    ELSE update_hit_count(c.db, c.hot[idx].query, t),
             hot |-> [c.hot EXCEPT ![idx].hit_count = @ + 1, ![idx].last_used = t],
             found |-> c.hot[idx].query]

\* an eviction of the record that has been in the hot list longest
evict_first(hot) == Tail(hot)

\* FingerprintCache::evict_least_used: min_by_key returns the first minimum
evict_least_used(hot) ==
    LET less(a, b) == \/ a.hit_count < b.hit_count
                      \/ a.hit_count = b.hit_count /\ a.last_used < b.last_used
        idx == Min({i \in 1 .. Len(hot) : \A j \in 1 .. Len(hot) : ~less(hot[j], hot[i])})
    IN SubSeq(hot, 1, idx - 1) \o SubSeq(hot, idx + 1, Len(hot))

\* an insert that pushes and never evicts
insert_unbounded(c, query, fingerprint, t, fault) ==
    LET rec == CacheRecord(query, fingerprint, 1, t)
    IN IF fault THEN [db |-> c.db, hot |-> c.hot, ok |-> FALSE]
       ELSE [db |-> {r \in c.db : r.query # query} \cup {rec},
             hot |-> Append(c.hot, rec), ok |-> TRUE]

\* FingerprintCache::insert.  fault: the INSERT OR REPLACE fails
insert(c, query, fingerprint, t, fault) ==
    LET rec == CacheRecord(query, fingerprint, 1, t)
        hot1 == Append(c.hot, rec)
    IN IF fault THEN [db |-> c.db, hot |-> c.hot, ok |-> FALSE]
       ELSE [db |-> {r \in c.db : r.query # query} \cup {rec},
             hot |-> IF Len(hot1) > HotCap THEN evict_least_used(hot1) ELSE hot1,
             ok |-> TRUE]

\* the orders in which SELECT .. ORDER BY last_used DESC LIMIT can return
\* the rows: rows of equal last_used come in an order the query does not fix
RECURSIVE WarmOrders(_)
WarmOrders(rows) ==
    IF rows = {} THEN {<<>>}
    ELSE UNION {{<<r>> \o rest : rest \in WarmOrders(rows \ {r})} :
                  r \in {x \in rows : \A y \in rows : y.last_used <= x.last_used}}

\* FingerprintCache::warm_up_cache / warm_up: the hot lists it can leave.
\* fault: the SELECT fails
warm_up_cache(c, fault) ==
    IF c.hot # <<>> THEN {[hot |-> c.hot, ok |-> TRUE]}
    ELSE IF fault THEN {[hot |-> c.hot, ok |-> FALSE]}
    ELSE {[hot |-> SubSeq(o, 1, Min({HotCap, Len(o)})), ok |-> TRUE] :
             o \in WarmOrders(c.db)}

(***************************************************************************)
(* ask (ask_handler.rs) with try_cache_lookup, cache_query_params and      *)
(* LlmManager::get_llm.  What one call meets is a record:                  *)
(*   llm     what get_llm finds when no model is initialised yet           *)
(*   gen     how OllamaModel::generate and the parse of its answer end     *)
(*   lookup  where try_cache_lookup stops: the embedding lock is busy,     *)
(*           embedding fails, USER_DB's lock is poisoned, warm-up fails;   *)
(*           or it runs, with the UPDATE inside find_match failing, or     *)
(*           its own update_hit_count failing                              *)
(*   caching where cache_query_params stops, or it runs                    *)
(*   search  execute_search succeeds                                       *)
(***************************************************************************)
LlmStates == {"ok", "not_installed", "not_running", "model_missing"}
GenOutcomes == {"ok", "timeout", "http_error", "bad_json"}
LookupStages ==
    {"embed_busy", "embed_err", "db_poisoned", "warm_err", "run",
     "run_hit_update_err", "run_update_err"}
CachingStages == {"embed_busy", "embed_err", "db_busy", "insert_err", "run"}

NoAskObs ==
    [op |-> "none", query |-> <<>>, intent |-> "none", words |-> 0,
     out |-> "none", via |-> "none", init_ok |-> FALSE, looked_up |-> FALSE,
     lookup_ok |-> TRUE,
     hit |-> NoQuery, model_called |-> FALSE, gen_ok |-> FALSE,
     cached |-> FALSE, entries_read |-> FALSE, lookup |-> "run",
     caching |-> "run", search |-> TRUE, at |-> 0,
     before |-> [db |-> {}, hot |-> <<>>], after |-> [db |-> {}, hot |-> <<>>]]

NoIntent == [query |-> <<>>, intent |-> "unset"]

InitAsk ==
    /\ cache_db = {}
    /\ hot_cache = <<>>
    /\ llm_model = FALSE
    /\ ask_obs = NoAskObs
    /\ intent_io = NoIntent

\* LlmManager::get_llm: Ok
get_llm(model, llm) == model \/ llm = "ok"

\* a router that ignores the intent
RouteByWords(intent, words) ==
    IF words <= 1 THEN "lexical" ELSE "tiers"

\* the match on intent and the word count of ask
Route(intent, words) ==
    IF intent = "Knowledge" THEN "answer"
    ELSE IF words <= 1 THEN "lexical" ELSE "tiers"

\* try_cache_lookup: the results it can return and the caches it leaves
try_cache_lookup(c, query, fingerprint, stage, t) ==
    IF stage \in {"embed_busy", "embed_err"}
    THEN {[db |-> c.db, hot |-> c.hot, ok |-> TRUE, found |-> NoQuery,
           looked_up |-> FALSE]}
    ELSE IF stage = "db_poisoned"
    THEN {[db |-> c.db, hot |-> c.hot, ok |-> FALSE, found |-> NoQuery,
           looked_up |-> FALSE]}
    ELSE {IF ~w.ok
          THEN [db |-> c.db, hot |-> w.hot, ok |-> FALSE, found |-> NoQuery,
                looked_up |-> FALSE]
          ELSE LET m == find_match([db |-> c.db, hot |-> w.hot], fingerprint, t,
                                   stage = "run_hit_update_err")
               IN IF m.found = NoQuery
                  THEN [db |-> m.db, hot |-> m.hot, ok |-> TRUE,
                        found |-> NoQuery, looked_up |-> TRUE]
                  ELSE IF stage = "run_update_err"
                  THEN [db |-> m.db, hot |-> m.hot, ok |-> FALSE,
                        found |-> NoQuery, looked_up |-> TRUE]
                  ELSE [db |-> update_hit_count(m.db, query, t), hot |-> m.hot,
                        ok |-> TRUE, found |-> m.found, looked_up |-> TRUE]
            : w \in warm_up_cache(c, stage = "warm_err")}

\* a lookup error returned to the caller of ask
TierVerdictStrict(r) ==
    IF ~r.ok THEN "error" ELSE IF r.found # NoQuery THEN "hit" ELSE "miss"

\* try_cache_lookup(query).unwrap_or(None), then if let Some(params)
TierVerdict(r) ==
    IF r.ok /\ r.found # NoQuery THEN "hit" ELSE "miss"

\* cache_query_params
cache_query_params(c, query, fingerprint, stage, t) ==
    IF stage \in {"embed_busy", "embed_err"}
    THEN [db |-> c.db, hot |-> c.hot, ok |-> TRUE, inserted |-> FALSE]
    ELSE IF stage = "db_busy"
    THEN [db |-> c.db, hot |-> c.hot, ok |-> FALSE, inserted |-> FALSE]
    ELSE LET r == insert(c, query, fingerprint, t, stage = "insert_err")
         IN [db |-> r.db, hot |-> r.hot, ok |-> r.ok, inserted |-> r.ok]

(***************************************************************************)
(* The service and its PID file (pid_controller.rs; start_service,         *)
(* stop_service, run_service and Commands::InternalDaemon of main.rs).     *)
(* A process is [cmd, pc]: cmd is the command it was started with ("run",  *)
(* "internal-daemon"), pc its position:                                    *)
(*   run              "check" before is_running(), "spawn" after it        *)
(*                    returned false, "done"                               *)
(*   internal-daemon  "save" before save_pid(), "loop" in run_service,     *)
(*                    "done"                                               *)
(***************************************************************************)
Pids == 1 .. MaxProcs
NoPid == 0
NoProc == [cmd |-> "none", pc |-> "none"]

InitService ==
    /\ pid_file = NoPid
    /\ procs = [p \in Pids |-> NoProc]

\* kill -0 pid
Alive(ps, p) == ps[p].cmd # "none" /\ ps[p].pc # "done"

\* pid_controller::is_running
is_running(file, ps) == file # NoPid /\ Alive(ps, file)

\* the pid the system gives the next process
FreshPid(ps) == Min({p \in Pids : ps[p].cmd = "none"})

\* the daemons inside run_service
RunningDaemons == {p \in Pids : procs[p].cmd = "internal-daemon" /\ procs[p].pc = "loop"}

(***************************************************************************)
(* Retention and maintenance: Database::cleanup_old_entries,               *)
(* cleanup_weak_associations, cleanup_old_sessions, run_maintenance, the   *)
(* .last_maintenance file, and maintain() of main.rs.                      *)
(***************************************************************************)
ONE_MONTH_SECONDS == CLEAN_OLD_ASSOCIATIONS_DAYS * 24 * 60 * 60
THREE_MONTHS_SECONDS == CLEAN_SESSIONS_DAYS * 24 * 60 * 60
ONE_WEEK == 7 * 24 * 60 * 60
\* the file is missing or does not hold a number
NoFile == -1

\* the oldest rows kept instead of the newest
KeepOldest(rows, cap) ==
    {K \in SUBSET rows :
        /\ Cardinality(K) = Min({cap, Cardinality(rows)})
        /\ \A k \in K, d \in rows \ K : k.timestamp <= d.timestamp}

\* the row sets that SELECT id .. ORDER BY timestamp DESC LIMIT cap can
\* return: rows of equal timestamp come in an order the query does not fix
KeepNewest(rows, cap) ==
    {K \in SUBSET rows :
        /\ Cardinality(K) = Min({cap, Cardinality(rows)})
        /\ \A k \in K, d \in rows \ K : k.timestamp >= d.timestamp}

\* Database::cleanup_old_entries: the tables entries it can leave.  fault:
\* 0 none, 1 the clipboard DELETE fails (the shell DELETE is not run),
\* 2 the shell DELETE fails
cleanup_old_entries(es, clipboard_limit, shell_limit, fault) ==
    IF fault = 1 THEN {es}
    ELSE {kc \cup ks :
             kc \in KeepNewest(ClipRows(es), clipboard_limit),
             ks \in IF fault = 2 THEN {ShellRows(es)}
                    ELSE KeepNewest(ShellRows(es), shell_limit)}

\* FOREIGN KEY .. ON DELETE CASCADE of command_sessions and
\* command_associations, for a connection that enforces foreign keys
CascadeSessions(ss, es) == {x \in ss : \E e \in es : e.id = x.entry_id}
CascadeAssocs(as, es) ==
    {x \in as : (\E e \in es : e.id = x.a) /\ (\E e \in es : e.id = x.b)}

\* Database::cleanup_weak_associations
cleanup_weak_associations(as, t) ==
    {x \in as : ~(x.strength < 2 /\ x.last_seen < t - ONE_MONTH_SECONDS)}

\* Database::cleanup_old_sessions
cleanup_old_sessions(ss, t) ==
    {x \in ss : ~(x.timestamp < t - THREE_MONTHS_SECONDS)}

\* the expensive steps taken on every invocation
always_due(last, t) == TRUE

\* Database::should_run_maintenance
should_run_maintenance(last, t) ==
    IF last = NoFile THEN TRUE ELSE t - last > ONE_WEEK

\* Database::run_maintenance.  fault: 0 none, 1 the edge DELETE fails,
\* 2 the session DELETE fails, 3 VACUUM fails
run_maintenance(db, t, fault) ==
    [entries |-> db.entries,
     sessions |-> IF fault \in {1, 2} THEN db.sessions
                  ELSE cleanup_old_sessions(db.sessions, t),
     assocs |-> IF fault = 1 THEN db.assocs
                ELSE cleanup_weak_associations(db.assocs, t),
     next_id |-> db.next_id,
     ok |-> fault = 0]

\* the calls maintain() makes on the store, in the order it makes them, each
\* with whether it returned Ok: cleanup_old_entries always; when due the
\* calls of run_maintenance, which `?` ends at the first Err; then
\* update_last_maintenance when run_maintenance returned Ok
maintain_steps(due, cfault, mfault) ==
    <<<<"cleanup_old_entries", cfault = 0>>>> \o
    (IF ~due THEN <<>>
     ELSE <<<<"cleanup_weak_associations", mfault # 1>>>> \o
          (IF mfault = 1 THEN <<>>
           ELSE <<<<"cleanup_old_sessions", mfault # 2>>>> \o
                (IF mfault = 2 THEN <<>>
                 ELSE <<<<"VACUUM", mfault # 3>>>> \o
                      (IF mfault = 3 THEN <<>>
                       ELSE <<<<"update_last_maintenance", mfault # 4>>>>))))

InitMaintain == last_maintenance = NoFile

(***************************************************************************)
(* The privacy filter (sensitive_info_plugin.rs).                          *)
(***************************************************************************)
\* str::ends_with
ends_with(s, suffix) ==
    /\ Len(suffix) <= Len(s)
    /\ SubSeq(s, Len(s) - Len(suffix) + 1, Len(s)) = suffix

\* str::trim_end_matches(c)
RECURSIVE trim_end_matches(_, _)
trim_end_matches(s, c) ==
    IF s # <<>> /\ s[Len(s)] = c THEN trim_end_matches(SubSeq(s, 1, Len(s) - 1), c)
    ELSE s

\* Regex::new(pattern).is_match(text) for the patterns used here, which have
\* no metacharacter: an unanchored, case-sensitive search for the literal
is_match(pattern, text) == contains(text, pattern)

\* the exclude_folders loop: the directory is the folder or lies inside it
FolderExcluded(working_dir, pattern) ==
    LET working_dir_lower == to_lowercase(working_dir)
        pattern_lower == to_lowercase(pattern)
        normalized_pattern == trim_end_matches(pattern_lower, "/")
    IN \/ working_dir_lower = pattern_lower
       \/ starts_with(working_dir_lower, normalized_pattern \o <<"/">>)

\* SensitiveCommandFilter::on_command_captured; config_ok is whether
\* GLOBAL_CONFIG.read() returned Ok.  The lists are searched in the order of
\* the code; the answer does not depend on the order within a list.
on_command_captured(command, working_dir, privacy, config_ok) ==
    IF ~config_ok THEN "Continue"
    ELSE IF \E i \in 1 .. Len(privacy.excludes_contains_string) :
               contains(to_lowercase(command), privacy.excludes_contains_string[i])
    THEN "Skip"
    ELSE IF \E i \in 1 .. Len(privacy.exclude_folders) :
               FolderExcluded(working_dir, privacy.exclude_folders[i])
    THEN "Skip"
    ELSE IF \E i \in 1 .. Len(privacy.excludes_regex) :
               is_match(privacy.excludes_regex[i], working_dir)
    THEN "Skip"
    ELSE IF \E i \in 1 .. Len(privacy.excludes_starts_with_string) :
               starts_with(to_lowercase(command),
                           privacy.excludes_starts_with_string[i])
    THEN "Skip"
    ELSE IF \E i \in 1 .. Len(privacy.excludes_ends_with_string) :
               ends_with(to_lowercase(command),
                         privacy.excludes_ends_with_string[i])
    THEN "Skip"
    ELSE "Continue"

NoFilter ==
    [op |-> "none", command |-> <<>>, working_dir |-> <<>>,
     privacy |-> [excludes_contains_string |-> <<>>, exclude_folders |-> <<>>,
                  excludes_regex |-> <<>>, excludes_starts_with_string |-> <<>>,
                  excludes_ends_with_string |-> <<>>],
     config_ok |-> TRUE, action |-> "none"]

InitFilter == filter_io = NoFilter

\* PrivacyConfig of Config::default()
DefaultPrivacy ==
    [excludes_contains_string |->
        <<<<".", "/", "t", "a", "r", "g", "e", "t", "/", "d", "e", "b", "u", "g", "/", "j", "o", "t", "x">>,
          <<"j", "o", "t", "x", ".", "e", "x", "e">>,
          <<"p", "a", "s", "s", "w", "o", "r", "d">>>>,
     exclude_folders |-> <<<<".", "g", "i", "t">>, <<"n", "o", "d", "e", "_", "m", "o", "d", "u", "l", "e", "s">>>>,
     excludes_regex |-> <<>>,
     excludes_starts_with_string |->
        <<<<"j", "o", "t", "x", ".", "e", "x", "e">>, <<"j", "o", "t", "x">>, <<"j", "a">>, <<"j", "s">>>>,
     excludes_ends_with_string |-> <<>>]

(***************************************************************************)
(* The capture toggles (settings.rs) and the position of run_service.      *)
(***************************************************************************)
\* Settings::default
DefaultSettings ==
    [capture_clipboard |-> TRUE, capture_shell |-> TRUE,
     capture_shell_history_with_files |-> FALSE]

InitSettings == settings = DefaultSettings /\ service_pc = "load"

(***************************************************************************)
(* The plugin hub (plugin_manager.rs) over the plugins of base_plugin.rs,  *)
(* script_plugin.rs and sensitive_info_plugin.rs.                          *)
(***************************************************************************)
Hooks == {"on_command_captured", "on_search_after", "on_llm_before",
          "on_daemon_tick"}

\* what running an external plugin's executable gives: the process cannot be
\* spawned, exits non-zero, prints what is no PluginResponse, or prints a
\* response with this action ("modify": with the data of a result list)
ExternalRuns == {"spawn_failed", "nonzero_exit", "unparsable", "continue",
                 "stop", "skip", "modify"}
\* what calling a script's function gives: the function is missing or the
\* script crashed, or the string it returned
ScriptRuns == {"crash", "continue", "stop", "skip"}

\* ExternalPlugin::execute: Err, or the response's action
execute(run) ==
    IF run \in {"spawn_failed", "nonzero_exit", "unparsable"} THEN "Err"
    ELSE run

\* script_engine.rs parse_plugin_action
parse_plugin_action(result) ==
    IF result = "stop" THEN "Stop"
    ELSE IF result = "skip" THEN "Skip"
    ELSE "Continue"

\* ScriptPlugin::call_script_fn
call_script_fn(run) ==
    IF run = "crash" THEN "Continue" ELSE parse_plugin_action(run)

\* <ExternalPlugin as Plugin>::on_command_captured
external_on_command_captured(p) ==
    IF ~p.subscribed THEN "Continue"
    ELSE LET response == execute(p.run)
         IN IF response = "Err" THEN "Err"
            ELSE IF response = "stop" THEN "Stop"
            ELSE IF response = "skip" THEN "Skip"
            ELSE "Continue"

\* <ExternalPlugin as Plugin>::on_search_after: the response's action is not
\* read; data that is a result list replaces the results
external_on_search_after(p) ==
    IF ~p.subscribed THEN "Continue"
    ELSE LET response == execute(p.run)
         IN IF response = "Err" THEN "Err"
            ELSE IF response = "modify" THEN "ModifyData"
            ELSE "Continue"

\* the Result of plugin p's method for the hook; a method the plugin's type
\* does not define is the trait's default, Ok(Continue)
PluginHook(hook, p, command) ==
    IF p.kind = "external"
    THEN IF hook = "on_command_captured" THEN external_on_command_captured(p)
         ELSE IF hook = "on_search_after" THEN external_on_search_after(p)
         ELSE "Continue"
    ELSE IF p.kind = "script"
    THEN IF hook = "on_search_after" THEN "Continue"
         ELSE call_script_fn(p.run)
    ELSE IF hook = "on_command_captured"
         THEN on_command_captured(command, <<>>, DefaultPrivacy, TRUE)
         ELSE "Continue"

\* what the plugin's own code answered to the event: the action of an
\* external plugin's response, the string a script's function returned, the
\* built-in filter's action; "none" when its code was not run or gave no
\* answer
PluginReply(hook, p, command) ==
    IF p.kind = "external"
    THEN IF p.subscribed /\ hook \in {"on_command_captured", "on_search_after"}
            /\ execute(p.run) # "Err"
         THEN p.run ELSE "none"
    ELSE IF p.kind = "script"
    THEN IF hook # "on_search_after" /\ p.run # "crash" THEN p.run ELSE "none"
    ELSE IF hook = "on_command_captured"
         THEN IF PluginHook(hook, p, command) = "Skip" THEN "skip" ELSE "continue"
         ELSE "none"

\* PluginManager::trigger_llm_before
trigger_llm_before(answers) == TriggerFrom(answers, 1)

\* the positions of the plugins whose method the hub's loop calls:
\* trigger_command_captured and trigger_llm_before return at the first Stop
\* or Skip, trigger_search_after and trigger_daemon_tick read no action
RECURSIVE CalledFrom(_, _, _)
CalledFrom(hook, answers, i) ==
    IF i > Len(answers) THEN <<>>
    ELSE IF /\ hook \in {"on_command_captured", "on_llm_before"}
            /\ ~TriggerFrom(<<answers[i]>>, 1)
    THEN <<i>>
    ELSE <<i>> \o CalledFrom(hook, answers, i + 1)

NoHook ==
    [op |-> "none", hook |-> "none", plugins |-> <<>>, answers |-> <<>>,
     replies |-> <<>>, called |-> <<>>, proceed |-> TRUE]

InitHooks == hook_io = NoHook

(***************************************************************************)
(* The search path (search_handler.rs): keyword_search_with_params and     *)
(* display_results_interactive with the on_search_after hook.              *)
(***************************************************************************)
ONE_DAY == 24 * 60 * 60
MAX_RESULTS == 10

\* the characters of the stored contents
Chars == [c \in Contents |-> IF c = "ls" THEN <<"l", "s">> ELSE <<"c", "d">>]

\* Option<SimpleTimeRange>, the ranges drawn here
TimeRanges == {"None", "Today", "Yesterday"}

\* now.date_naive().and_hms_opt(0, 0, 0) in the local zone, taken at offset 0
start_of_day(t) == (t \div ONE_DAY) * ONE_DAY

\* (start_ts, end_ts) of the time range
TimeWindow(time_range, t) ==
    IF time_range = "Today" THEN <<start_of_day(t), t>>
    ELSE <<start_of_day(t) - ONE_DAY, start_of_day(t)>>

\* the second CASE of the SELECT: the only use made of (start_ts, end_ts)
TimeBoost(e, time_range, t) ==
    IF time_range = "None" THEN 0
    ELSE LET w == TimeWindow(time_range, t)
         IN IF e.timestamp >= w[1] /\ e.timestamp < w[2] THEN 50
            ELSE IF e.timestamp >= w[1] - ONE_DAY /\ e.timestamp < w[2] + ONE_DAY
                 THEN 25
                 ELSE 0

\* entries_fts MATCH 'k1* OR k2* ..': the rowids of the indexed documents
\* with a token that begins with a keyword, letter case folded
FtsMatch(fts, keywords) ==
    {d.rowid : d \in {x \in fts : \E i \in 1 .. Len(keywords) :
                         starts_with(to_lowercase(Chars[x.content]),
                                     to_lowercase(keywords[i]))}}

\* the WHERE clause: the MATCH and, when given, the entry type
WhereRows(es, fts, params) ==
    {e \in es : /\ e.id \in FtsMatch(fts, params.keywords)
                /\ params.entry_types \in {"None", "", "null"}
                      \/ e.entry_type = params.entry_types}

\* ORDER BY combined_boost DESC, e.times_run DESC, e.timestamp DESC
SqlAfter(x, y, time_range, t) ==
    LET bx == TimeBoost(x, time_range, t)
        by == TimeBoost(y, time_range, t)
    IN \/ bx < by
       \/ bx = by /\ x.times_run < y.times_run
       \/ bx = by /\ x.times_run = y.times_run /\ x.timestamp < y.timestamp

\* the orders in which the SELECT can return the rows: rows equal in the
\* three keys come in an order the query does not fix
RECURSIVE SqlOrders(_, _, _)
SqlOrders(rows, time_range, t) ==
    IF rows = {} THEN {<<>>}
    ELSE UNION {{<<r>> \o rest : rest \in SqlOrders(rows \ {r}, time_range, t)} :
                  r \in {x \in rows : \A y \in rows : ~SqlAfter(x, y, time_range, t)}}

\* keywords.join(" ")
RECURSIVE join(_)
join(words) ==
    IF words = <<>> THEN <<>>
    ELSE IF Len(words) = 1 THEN words[1]
    ELSE words[1] \o <<" ">> \o join(Tail(words))

\* char::is_alphanumeric, on the characters the inputs use
is_alphanumeric(c) ==
    \E i \in 1 .. Len(LowerLetters) : c = LowerLetters[i] \/ c = UpperLetters[i]

\* calculate_relevance_score, in thousandths, for rows without a working
\* directory (no PWD boost)
calculate_relevance_score(content, query) ==
    LET content_lower == to_lowercase(content)
        n == Max({Len(content_lower), 1})
    IN IF content_lower = query THEN 100000
       ELSE IF starts_with(content_lower, query) THEN 90000
       ELSE IF contains(content_lower, query)
       THEN LET pos == Min({i \in 1 .. Len(content_lower) :
                              SubSeq(content_lower, i, i + Len(query) - 1) = query}) - 1
                end_pos == pos + Len(query)
                is_word_start == pos = 0 \/ ~is_alphanumeric(content_lower[pos])
                is_word_end == \/ end_pos >= Len(content_lower)
                               \/ ~is_alphanumeric(content_lower[end_pos + 1])
            IN IF is_word_start /\ is_word_end
               THEN 80000 - (pos * 20000) \div n
               ELSE 60000 - (pos * 30000) \div n
       ELSE (Cardinality({i \in 1 .. Len(query) :
                            \E j \in 1 .. Len(content_lower) :
                                content_lower[j] = query[i]}) * 40000)
                \div Max({Len(query), 1})

\* a row of the SELECT as a SearchResult, with the score that replaces the
\* SQL boost: base score plus frequency bonus
SearchResult(e, query_str) ==
    [id |-> e.id, entry_type |-> e.entry_type, content |-> e.content,
     timestamp |-> e.timestamp, times_run |-> e.times_run, host |-> e.host,
     similarity |-> calculate_relevance_score(Chars[e.content], query_str)
                      + Min({e.times_run, 10}) * 2000]

\* the rows left in the order of the SELECT
keep_order(rs) == rs

\* results.sort_by(b.similarity cmp a.similarity): a stable sort, highest first
RECURSIVE sort_by_similarity(_)
sort_by_similarity(rs) ==
    IF rs = <<>> THEN <<>>
    ELSE LET rest == sort_by_similarity(SubSeq(rs, 1, Len(rs) - 1))
             x == rs[Len(rs)]
             k == Cardinality({i \in 1 .. Len(rest) :
                                 rest[i].similarity >= x.similarity})
         IN SubSeq(rest, 1, k) \o <<x>> \o SubSeq(rest, k + 1, Len(rest))

\* results.retain(|item| seen.insert(item.content.clone()))
RECURSIVE retain_unseen(_, _)
retain_unseen(rs, seen) ==
    IF rs = <<>> THEN <<>>
    ELSE IF Head(rs).content \in seen THEN retain_unseen(Tail(rs), seen)
    ELSE <<Head(rs)>> \o retain_unseen(Tail(rs), seen \cup {Head(rs).content})

\* Vec::truncate
truncate(rs, n) == SubSeq(rs, 1, Min({n, Len(rs)}))

\* keyword_search_with_params: the results it can return.  lock_ok: USER_DB's
\* lock is not poisoned.  With no keyword the MATCH argument is "*", which
\* FTS5 rejects, and the statement fails.
keyword_search_with_params(es, fts, params, t, lock_ok) ==
    IF ~lock_ok \/ params.keywords = <<>> THEN {[ok |-> FALSE, results |-> <<>>]}
    ELSE LET query_str == to_lowercase(join(params.keywords))
         IN {[ok |-> TRUE,
              results |->
                 truncate(retain_unseen(sort_by_similarity(
                     [i \in 1 .. Len(o) |-> SearchResult(o[i], query_str)]), {}), 20)] :
                o \in SqlOrders(WhereRows(es, fts, params), params.time_range, t)}

\* the end of keyword_search and of keyword_search_with_params, from the
\* scored rows on: the final sort, the retain by content, truncate(20)
rank_results(results) ==
    truncate(retain_unseen(sort_by_similarity(results), {}), 20)

\* results.retain(|r| r.similarity > threshold)
RECURSIVE retain_above(_, _)
retain_above(rs, threshold) ==
    IF rs = <<>> THEN <<>>
    ELSE IF Head(rs).similarity > threshold
    THEN <<Head(rs)>> \o retain_above(Tail(rs), threshold)
    ELSE retain_above(Tail(rs), threshold)

\* semantic_search_vector on the rows of its SELECT
semantic_search_vector(rows, threshold) ==
    sort_by_similarity(retain_above(rows, threshold))

\* semantic_search_fallback on the rows of its SELECT
semantic_search_fallback(rows, threshold) ==
    retain_above(sort_by_similarity(rows), threshold)

\* semantic_search from the candidate rows on.  rows: the entries with an
\* embedding, newest first, as semantic_search_fallback reads them; the
\* sqlite-vec SELECT returns them ORDER BY distance ASC when vec_ok.
semantic_search(rows, threshold, vec_ok) ==
    LET results == IF vec_ok
                   THEN semantic_search_vector(sort_by_similarity(rows), threshold)
                   ELSE semantic_search_fallback(rows, threshold)
    IN truncate(retain_unseen(results, {}), 20)

NoRank == [op |-> "none", rows |-> <<>>, threshold |-> 0, results |-> <<>>]

InitRank == rank_io = NoRank

\* what an on_search_after plugin does with the list it is given
SearchPlugins == {"keep", "drop_first", "reverse", "err"}

Reverse(rs) == [i \in 1 .. Len(rs) |-> rs[Len(rs) + 1 - i]]

on_search_after(plugin, results) ==
    IF results = <<>> THEN results
    ELSE IF plugin = "drop_first" THEN Tail(results)
    ELSE IF plugin = "reverse" THEN Reverse(results)
    ELSE results

\* PluginManager::trigger_search_after: every plugin in registration order on
\* the same vector; an Err is printed
RECURSIVE trigger_search_after(_, _)
trigger_search_after(plugins, results) ==
    IF plugins = <<>> THEN results
    ELSE trigger_search_after(Tail(plugins), on_search_after(Head(plugins), results))

\* trigger_plugins: the plugins work on results.to_vec(), a copy that is
\* dropped on return; the value is that copy as the plugins left it
trigger_plugins(results, plugins, manager_ok) ==
    IF manager_ok THEN trigger_search_after(plugins, results) ELSE results

NoResult == [id |-> 0]

\* display_results_interactive.  selection: the index the user chose among
\* the items, -1 when the prompt was cancelled or failed.
display_results_interactive(results, max_results, selection, plugins, manager_ok) ==
    LET items == truncate(results, IF max_results > 0 THEN max_results
                                   ELSE MAX_RESULTS)
    IN IF results = <<>> \/ selection < 0
       THEN [items |-> IF results = <<>> THEN <<>> ELSE items,
             hooked |-> FALSE, after_plugins |-> results, returned |-> NoResult]
       ELSE [items |-> items, hooked |-> TRUE,
             after_plugins |-> trigger_plugins(results, plugins, manager_ok),
             returned |-> results[selection + 1]]

(***************************************************************************)
(* The sample selector (db/sample_generator/mod.rs).                       *)
(***************************************************************************)
SampleStrategies == {"Similarity", "Balanced", "Diverse", "Adaptive"}

\* every order of a set of rows
RECURSIVE Arrangements(_)
Arrangements(rows) ==
    IF rows = {} THEN {<<>>}
    ELSE UNION {{<<r>> \o rest : rest \in Arrangements(rows \ {r})} : r \in rows}

\* SELECT .. WHERE entry_type = 'command' AND embedding IS NOT NULL
\* ORDER BY times_run DESC, timestamp DESC LIMIT n: the sets of rows it can
\* return
SampleCandidates(es, n) ==
    LET rows == {e \in es : e.entry_type = "command" /\ e.embedding # "NULL"}
        After(x, y) == \/ x.times_run < y.times_run
                       \/ x.times_run = y.times_run /\ x.timestamp < y.timestamp
    IN IF Cardinality(rows) <= n THEN {rows}
       ELSE {S \in SUBSET rows : /\ Cardinality(S) = n
                                 /\ \A x \in S, y \in rows \ S : ~After(x, y)}

Sample(e) == [command |-> e.content]

\* select_by_strategy.  The vectors are not computed here, so the order by
\* similarity (or by the weighted score) is any order of the candidates.
\* select_diverse skips a command whose word overlap with a selected one is
\* 0.7 or more: for one-word commands, a command already selected.
select_by_strategy(samples, k, strategy) ==
    {IF strategy = "Diverse" THEN truncate(retain_unseen(o, {}), k)
                             ELSE truncate(o, k) : o \in Arrangements(samples)}

\* get_samples_fallback
get_samples_fallback(es, k, strategy) ==
    UNION {{[i \in 1 .. Len(o) |-> Sample(o[i])] :
               o \in select_by_strategy(c, k, strategy)} :
             c \in SampleCandidates(es, Min({k * 10, 1000}))}

\* get_samples_vector: no statement creates vec_entries, so the prepare of
\* its SELECT fails and get_samples goes on to the fallback
get_samples_vector(es, k, strategy) == [ok |-> FALSE, samples |-> <<>>]

\* SampleSelector::get_samples: the values it can return.  env: the
\* embedding model's lock is poisoned or embed fails, USER_DB's lock is
\* poisoned, or neither
SampleEnvs == {"ok", "embed_err", "lock_err"}

get_samples(es, k, strategy, env) ==
    IF env # "ok" THEN {[ok |-> FALSE, samples |-> <<>>]}
    ELSE IF get_samples_vector(es, k, strategy).ok
         THEN {get_samples_vector(es, k, strategy)}
         ELSE {[ok |-> TRUE, samples |-> x] :
                  x \in get_samples_fallback(es, k, strategy)}

NoParams == [keywords |-> <<>>, entry_types |-> "None", time_range |-> "None"]

NoSearch ==
    [op |-> "none", ok |-> TRUE, at |-> 0, params |-> NoParams,
     results |-> <<>>, plugins |-> <<>>, selection |-> -1, items |-> <<>>,
     hooked |-> FALSE, after_plugins |-> <<>>, returned |-> NoResult,
     k |-> 0, strategy |-> "none", samples |-> <<>>]

InitSearch == search_obs = NoSearch

(***************************************************************************)
(* Spec: the Database API called directly.                                 *)
(***************************************************************************)
Pairs == Contents \X HostArgs

InitStore ==
    /\ entries = {}
    /\ command_sessions = {}
    /\ command_associations = {}
    /\ next_id = 1
    /\ now = 0
    /\ entries_fts = {}

InitApi ==
    /\ upserts = [p \in Pairs |-> 0]
    /\ n_calls = 0
    /\ ticks = 0

Init ==
    /\ InitStore
    /\ InitApi
    /\ InitWriter
    /\ InitCapture
    /\ InitMaintain
    /\ InitAsk
    /\ InitService
    /\ InitSearch
    /\ InitFilter
    /\ InitHooks
    /\ InitRank
    /\ InitSettings
    /\ InitFingerprint

InsertShell(content, host, emb, fault) ==
    /\ n_calls < MaxCalls
    /\ LET r == insert_shell(TheDb, content, now, host, emb, now, fault)
       IN /\ SetDb(r)
          /\ upserts' = IF r.upserted
                        THEN [upserts EXCEPT ![<<content, host>>] = @ + 1]
                        ELSE upserts
    /\ n_calls' = n_calls + 1
    /\ UNCHANGED <<now, ticks, writerVars, captureVars, maintVars, askVars, pidVars, ioVars>>

InsertClipboard(content, emb, fault) ==
    /\ n_calls < MaxCalls
    /\ SetDb(insert_clipboard(TheDb, content, now, emb, now, fault))
    /\ n_calls' = n_calls + 1
    /\ UNCHANGED <<now, ticks, upserts, writerVars, captureVars, maintVars, askVars, pidVars, ioVars>>

Tick(d) ==
    /\ ticks < MaxTicks
    /\ ticks' = ticks + 1
    /\ now' = now + d
    /\ UNCHANGED <<entries, command_sessions, command_associations, next_id,
                   entries_fts, upserts, n_calls, writerVars, captureVars,
                   maintVars, askVars, pidVars, ioVars>>

Next ==
    \/ \E c \in Contents, h \in HostArgs, f \in Faults : InsertShell(c, h, "blob", f)
    \/ \E c \in Contents, e \in Embeddings, f \in {0, 1} : InsertClipboard(c, e, f)
    \/ \E d \in ClockSteps : Tick(d)

Spec == Init /\ [][Next]_vars

(***************************************************************************)
(* SpecWriter: producers, the channel, worker_thread and the process's end. *)
(* The clock stands still here; its advance is explored by Spec.           *)
(***************************************************************************)
\* the producers' payloads
WriterItems ==
    {DbEntry("shell", "ls", "alice", 0), DbEntry("clipboard", "ls", NoHost, 0)}

\* the statement errors injected: none, the upsert, the session row, the
\* first edge
WriterFaults == {0, 1, 2, 3}

NextWriter ==
    \/ \E p \in Producers, i \in WriterItems : Send(p, i)
    \/ \E p \in Producers : SendWakes(p)
    \/ \E ok \in BOOLEAN : WorkerStart(ok)
    \/ WorkerRecv
    \/ WorkerTimeout
    \/ WorkerCollect
    \/ \E e \in Embeddings : WorkerNext(e)
    \/ \E f \in WriterFaults : WorkerAttempt(f)
    \/ ProcessExit

SpecWriter == Init /\ [][NextWriter]_vars

(***************************************************************************)
(* SpecCapture: the shell hook's captures, the history sweep and the       *)
(* clipboard poller writing to the store, and the clock.                   *)
(***************************************************************************)
\* the command lines captured or found in a history file
CaptureCmds == {<<"l", "s">>, <<"L", "S">>, <<"j", "s">>, <<"J", "S">>}
\* $HOST of the capturing shell
CaptureHosts == {NoHost, "alice"}
\* what the clipboard holds at a poll
ClipValues == {<<>>, <<"A">>, <<"B">>}
\* the history files
Shells == {"bash", "zsh", "fish"}
\* the answers of two registered plugins to one on_command_captured call
PluginRuns ==
    {<<"Continue", "Continue">>, <<"Err", "ModifyData">>,
     <<"Continue", "Skip">>, <<"Stop", "Continue">>}

\* what one capture_command call meets: the settings lock and the settings
\* read under it, the plugin lock and the plugins' answers, the monitor lock,
\* the embedding model, the store.  An input the call never reads, because it
\* returned before, is kept at one value.
CaptureEnvs ==
    {e \in [settings_busy : BOOLEAN, capture_shell : BOOLEAN,
            shell_case_sensitive : BOOLEAN, plugins_busy : BOOLEAN,
            answers : PluginRuns, monitor_busy : BOOLEAN,
            emb_ok : BOOLEAN, fault : {0, 1, 2}] :
        LET quiet == ~e.shell_case_sensitive /\ ~e.plugins_busy
                     /\ e.answers = <<"Continue", "Continue">>
                     /\ ~e.monitor_busy /\ e.emb_ok /\ e.fault = 0
        IN /\ e.settings_busy => (e.capture_shell /\ quiet)
           /\ ~e.capture_shell => quiet
           /\ e.plugins_busy => e.answers = <<"Continue", "Continue">>
           /\ ~trigger_command_captured(e.answers) =>
                 (~e.shell_case_sensitive /\ ~e.monitor_busy /\ e.emb_ok
                  /\ e.fault = 0)
           /\ e.monitor_busy =>
                 (~e.shell_case_sensitive /\ e.emb_ok /\ e.fault = 0)
           /\ ~e.emb_ok => e.fault = 0}

\* capture_command
CaptureCommand(cmd, host, env) ==
    /\ n_calls < MaxOps
    /\ n_calls' = n_calls + 1
    /\ LET settings_busy == env.settings_busy
           should_capture == env.capture_shell
           case_sensitive == env.shell_case_sensitive
           plugins_busy == env.plugins_busy
           answers == env.answers
           monitor_busy == env.monitor_busy
           emb_ok == env.emb_ok
           fault == env.fault
           own == \/ starts_with(cmd, SERVICE_NAME)
                  \/ starts_with(cmd, SERVICE_NAME_SHORT)
                  \/ starts_with(cmd, SERVICE_NAME_SHORT2)
           passed == ~own /\ ~settings_busy /\ should_capture
           should_add == IF plugins_busy THEN TRUE
                         ELSE trigger_command_captured(answers)
           hook == IF ~passed \/ plugins_busy THEN "not_run"
                   ELSE IF should_add THEN "approved" ELSE "vetoed"
           reached == passed /\ should_add /\ ~monitor_busy
           text == IF case_sensitive THEN cmd ELSE to_lowercase(cmd)
           r == IF reached
                THEN add_command(TheDb, text, now, host, emb_ok, now, fault)
                ELSE NotCalled(TheDb)
       IN /\ SetDb(r)
          /\ obs' = [NoObs EXCEPT !.op = "capture", !.hook = hook,
                                   !.due = reached /\ fault = 0,
                                   !.emb_ok = emb_ok,
                                   !.wrote = r.entries # entries,
                                   !.raw = cmd,
                                   !.text = IF reached THEN text ELSE <<>>,
                                   !.folded = reached /\ ~case_sensitive]
    /\ UNCHANGED <<now, ticks, upserts, writerVars, last_clip, last_context,
                   sweeper,
                   maintVars, askVars, pidVars, ioVars>>

\* one command of ShellMon::read_all_histories: the case folding of its
\* loop, then add_or_increment
SweepCommand(shell, line, case_sensitive, fault) ==
    /\ n_calls < MaxOps
    /\ sweeper = "ready"
    /\ n_calls' = n_calls + 1
    /\ LET cmd == IF shell \in {"bash", "zsh"} /\ ~case_sensitive
                  THEN to_lowercase(line) ELSE line
           ids == get_shell_command_id(entries, cmd)
       IN IF ids # {}
          THEN \E id \in ids :
                 /\ entries' = IF fault THEN entries
                               ELSE increment_shell_command(entries, id, now)
                 /\ sweeper' = sweeper
                 /\ obs' = [NoObs EXCEPT
                              !.op = "sweep",
                              !.raw = line, !.text = cmd,
                              !.folded = ~case_sensitive,
                              !.wrote = entries' # entries,
                              !.as_upsert =
                                  fault \/
                                  entries' = insert_shell(TheDb, cmd, now,
                                                 NoHost, "blob", now, 0).entries]
          ELSE \* add_to_db locks SHELL_DB, which add_or_increment holds
               /\ sweeper' \in {"deadlocked", "panicked"}
               /\ entries' = entries
               /\ obs' = [NoObs EXCEPT !.op = "sweep", !.raw = line,
                                        !.text = cmd,
                                        !.folded = ~case_sensitive]
    /\ entries_fts' = Triggers(entries_fts, entries, entries')
    /\ UNCHANGED <<command_sessions, command_associations, next_id, now,
                   ticks, upserts, writerVars, last_clip, last_context,
                   maintVars, askVars, pidVars, ioVars>>

\* ClipMon::check
ClipCheck(clip, window, context_ok, emb_ok, fault) ==
    /\ n_calls < MaxOps
    /\ n_calls' = n_calls + 1
    /\ LET fresh == clip # <<>> /\ clip # last_clip
           r == IF context_ok /\ fresh
                THEN ClipMon_add_to_db(TheDb, clip, now, emb_ok, now, fault)
                ELSE NotCalled(TheDb)
       IN /\ SetDb(r)
          /\ last_clip' = IF context_ok /\ fresh THEN clip ELSE last_clip
          /\ last_context' = IF ~context_ok THEN last_context
                             ELSE IF fresh THEN window
                             ELSE IF last_context = NoContext THEN window
                             ELSE IF last_context # window THEN window
                             ELSE last_context
          /\ obs' = [NoObs EXCEPT !.op = "clip",
                                   !.due = context_ok /\ fresh /\ fault = 0,
                                   !.emb_ok = emb_ok,
                                   !.wrote = r.entries # entries,
                                   !.fresh = fresh]
    /\ UNCHANGED <<now, ticks, upserts, writerVars, sweeper,
                   maintVars, askVars, pidVars, ioVars>>

NextCapture ==
    \/ \E c \in CaptureCmds, h \in CaptureHosts, e \in CaptureEnvs :
          CaptureCommand(c, h, e)
    \/ \E sh \in Shells, c \in CaptureCmds, cs, f \in BOOLEAN :
          SweepCommand(sh, c, cs, f)
    \/ \E c \in ClipValues, w \in WindowInfos, ok, eo \in BOOLEAN, f \in {0, 1} :
          ClipCheck(c, w, ok, eo, f)
    \/ \E d \in ClockSteps : Tick(d)

SpecCapture == Init /\ [][NextCapture]_vars

(***************************************************************************)
(* SpecMaintain: the store written by insert_shell, insert_clipboard and   *)
(* increment_shell_command, trimmed by maintain(), and the clock.          *)
(***************************************************************************)
\* settings.clipboard_limit, settings.shell_limit
Caps == {0, 1, 2}

\* Database::increment_shell_command on an existing row
IncrementShell(id) ==
    /\ n_calls < MaxCalls
    /\ n_calls' = n_calls + 1
    /\ entries' = increment_shell_command(entries, id, now)
    /\ entries_fts' = Triggers(entries_fts, entries, entries')
    /\ UNCHANGED <<command_sessions, command_associations, next_id, now,
                   ticks, upserts, writerVars, captureVars, maintVars, askVars, pidVars, ioVars>>

\* maintain() of main.rs: cleanup_old_entries, then run_maintenance and
\* update_last_maintenance when should_run_maintenance.  The errors are
\* printed.  cascade: the connection enforces foreign keys.  mfault: as for
\* run_maintenance, and 4 the write of .last_maintenance fails.
Maintain(clipboard_limit, shell_limit, cascade, cfault, mfault) ==
    /\ n_calls < MaxCalls
    /\ n_calls' = n_calls + 1
    /\ \E es1 \in cleanup_old_entries(entries, clipboard_limit, shell_limit, cfault) :
         LET ss1 == IF cascade THEN CascadeSessions(command_sessions, es1)
                    ELSE command_sessions
             as1 == IF cascade THEN CascadeAssocs(command_associations, es1)
                    ELSE command_associations
             db1 == [entries |-> es1, sessions |-> ss1, assocs |-> as1,
                     next_id |-> next_id]
             due == should_run_maintenance(last_maintenance, now)
             r == IF due THEN run_maintenance(db1, now, mfault % 4)
                  ELSE db1
         IN /\ entries' = r.entries
            /\ command_sessions' = r.sessions
            /\ command_associations' = r.assocs
            /\ last_maintenance' = IF due /\ mfault = 0 THEN now
                                   ELSE last_maintenance
            /\ obs' = [NoObs EXCEPT !.op = "maintain",
                                    !.caps = <<clipboard_limit, shell_limit>>,
                                    !.cleaned = cfault = 0,
                                    !.before = entries,
                                    !.after = es1,
                                    !.due = due,
                                    !.steps = maintain_steps(due, cfault, mfault),
                                    !.last = last_maintenance,
                                    !.at = now]
    /\ entries_fts' = Triggers(entries_fts, entries, entries')
    /\ UNCHANGED <<next_id, now, ticks, upserts, writerVars, last_clip,
                   last_context, sweeper, askVars, pidVars, ioVars>>

NextMaintain ==
    \/ \E c \in Contents, f \in {0, 2} : InsertShell(c, NoHost, "blob", f)
    \/ \E c \in Contents, f \in {0, 1} : InsertClipboard(c, "blob", f)
    \/ \E e \in ShellRows(entries) : IncrementShell(e.id)
    \/ \E cc, sc \in Caps, fk \in BOOLEAN, cf \in {0, 1, 2}, mf \in 0 .. 4 :
          Maintain(cc, sc, fk, cf, mf)
    \/ \E d \in MaintClockSteps : Tick(d)

SpecMaintain == Init /\ [][NextMaintain]_vars

(***************************************************************************)
(* SpecAsk: ask called with queries of each kind, in one process or in a   *)
(* new one, and the clock.                                                 *)
(***************************************************************************)
AskQueries ==
    {<<"g", "i", "t", " ", "l", "o", "g">>,
     <<"G", "i", "t", " ", "l", "o", "g">>,
     <<"s", "s", "h", " ", "k", "e", "y">>,
     <<"s", "s", "h">>,
     <<"H", "o", "w", " ", "t", "o", " ", "x">>,
     <<" ">>}

\* what ask computes from the query text alone: the word count, the intent
\* and the fingerprint that try_cache_lookup and cache_query_params build
QueryFacts ==
    [q \in AskQueries |->
        [words |-> Len(split_whitespace(q)),
         intent |-> classify_intent(q),
         fingerprint |-> QueryFingerprint(q, embed(q))]]

\* a call in which nothing goes wrong
OkEnv ==
    [llm |-> "ok", gen |-> "ok", lookup |-> "run", caching |-> "run",
     search |-> TRUE]

\* e, and e with one more thing going wrong
OneMoreFault(e) ==
    {e} \cup {[e EXCEPT !.llm = x] : x \in LlmStates}
        \cup {[e EXCEPT !.gen = x] : x \in GenOutcomes}
        \cup {[e EXCEPT !.lookup = x] : x \in LookupStages}
        \cup {[e EXCEPT !.caching = x] : x \in CachingStages}
        \cup {[e EXCEPT !.search = x] : x \in BOOLEAN}

\* the calls in which at most n things go wrong
RECURSIVE EnvsWithin(_)
EnvsWithin(n) ==
    IF n = 0 THEN {OkEnv}
    ELSE UNION {OneMoreFault(e) : e \in EnvsWithin(n - 1)}

AskEnvs == EnvsWithin(MaxAskFaults)

\* an input the call on this route never reads is kept at one value
AskReads(model, words, route, e) ==
    /\ (model \/ words = 0) => e.llm = "ok"
    /\ route # "tiers" => (e.lookup = "run" /\ e.caching = "run" /\ e.search)
    /\ route \in {"none", "lexical"} => e.gen = "ok"
    /\ route = "answer" => e.gen # "bad_json"

\* ask
Ask(query, env) ==
    /\ n_calls < MaxAsks
    /\ n_calls' = n_calls + 1
    /\ LET words == QueryFacts[query].words
           intent == QueryFacts[query].intent
           fingerprint == QueryFacts[query].fingerprint
           init_ok == get_llm(llm_model, env.llm)
           route == IF words = 0 \/ ~init_ok THEN "none" ELSE Route(intent, words)
           gen_ok == env.gen = "ok"
           base == [NoAskObs EXCEPT !.op = "ask", !.query = query,
                                    !.intent = IF words = 0 THEN "none" ELSE intent,
                                    !.words = words, !.init_ok = init_ok,
                                    !.lookup = env.lookup, !.caching = env.caching,
                                    !.search = env.search, !.at = now,
                                    !.before = TheCache, !.after = TheCache]
       IN /\ AskReads(llm_model, words, IF words = 0 THEN "none" ELSE Route(intent, words), env)
          /\ llm_model' = (llm_model \/ (words > 0 /\ init_ok))
          /\ CASE route = "none" ->
                    /\ ask_obs' = [base EXCEPT !.out = "Err"]
                    /\ UNCHANGED <<cache_db, hot_cache>>
               [] route = "answer" ->
                    /\ ask_obs' = [base EXCEPT
                                     !.model_called = TRUE, !.gen_ok = gen_ok,
                                     !.out = IF gen_ok THEN "Knowledge" ELSE "Err",
                                     !.via = IF gen_ok THEN "answer" ELSE "none"]
                    /\ UNCHANGED <<cache_db, hot_cache>>
               [] route = "lexical" ->
                    /\ ask_obs' = [base EXCEPT !.out = "SearchResults",
                                               !.via = "lexical",
                                               !.entries_read = TRUE]
                    /\ UNCHANGED <<cache_db, hot_cache>>
               [] OTHER ->
                    \E r \in try_cache_lookup(TheCache, query, fingerprint, env.lookup, now) :
                      LET verdict == TierVerdict(r)
                          c1 == [db |-> r.db, hot |-> r.hot]
                          k == IF verdict = "miss" /\ gen_ok
                               THEN cache_query_params(c1, query, fingerprint, env.caching,
                                                       now)
                               ELSE [db |-> c1.db, hot |-> c1.hot, ok |-> TRUE,
                                     inserted |-> FALSE]
                          seen == [base EXCEPT !.looked_up = r.looked_up,
                                               !.lookup_ok = r.ok,
                                               !.hit = IF verdict = "hit" THEN r.found
                                                       ELSE NoQuery,
                                               !.after = [db |-> k.db, hot |-> k.hot]]
                      IN /\ cache_db' = k.db
                         /\ hot_cache' = k.hot
                         /\ ask_obs' =
                              IF verdict = "hit"
                              THEN [seen EXCEPT
                                      !.entries_read = TRUE,
                                      !.out = IF env.search THEN "SearchResults"
                                              ELSE "Err",
                                      !.via = "cached_plan"]
                              ELSE IF verdict = "miss"
                              THEN [seen EXCEPT
                                      !.model_called = TRUE, !.gen_ok = gen_ok,
                                      !.entries_read = TRUE,
                                      !.cached = k.inserted,
                                      !.out = IF gen_ok /\ env.search
                                              THEN "SearchResults" ELSE "Err",
                                      !.via = IF gen_ok THEN "model_plan"
                                              ELSE "none"]
                              ELSE [seen EXCEPT !.out = "Err"]
    /\ UNCHANGED <<storeVars, upserts, ticks, writerVars, captureVars,
                   maintVars, intent_io, pidVars, ioVars>>

\* a new process: `ask` of the command line starts with an empty hot list
\* and no model
NewProcess ==
    /\ hot_cache # <<>> \/ llm_model
    /\ hot_cache' = <<>>
    /\ llm_model' = FALSE
    /\ UNCHANGED <<storeVars, apiVars, writerVars, captureVars, maintVars,
                   cache_db, ask_obs, intent_io, pidVars, ioVars>>

NextAsk ==
    \/ \E q \in AskQueries, e \in AskEnvs : Ask(q, e)
    \/ NewProcess
    \/ \E d \in ClockSteps : Tick(d)

SpecAsk == Init /\ [][NextAsk]_vars

(***************************************************************************)
(* SpecIntent: classify_intent called with queries made of a beginning     *)
(* (the five prefixes in lower and other case, beginnings that miss a      *)
(* prefix by a character, others) and an end (nothing, a word, each of the *)
(* temporal markers).                                                      *)
(***************************************************************************)
IntentHeads ==
    {<<"h", "o", "w", " ", "t", "o">>,
     <<"H", "o", "w", " ", "T", "o">>,
     <<"h", "o", "w", " ", "d", "o", " ", "i">>,
     <<"H", "O", "W", " ", "D", "O", " ", "I">>,
     <<"c", "o", "m", "m", "a", "n", "d", " ", "t", "o">>,
     <<"c", "o", "m", "m", "a", "n", "d", " ", "f", "o", "r">>,
     <<"C", "o", "m", "m", "a", "n", "d", " ", "F", "o", "r">>,
     <<"w", "h", "a", "t", " ", "i", "s", " ", "t", "h", "e", " ", "c", "o", "m", "m", "a", "n", "d">>,
     <<"h", "o", "w", " ", "t">>,
     <<"h", "o", "w", "t", "o">>,
     <<" ", "h", "o", "w", " ", "t", "o">>,
     <<"w", "h", "a", "t", " ", "i", "s", " ", "t", "h", "e">>,
     <<"s", "h", "o", "w">>,
     <<"s", "s", "h">>}

IntentTails ==
    {<<>>,
     <<" ", "x">>,
     <<" ", "y", "e", "s", "t", "e", "r", "d", "a", "y">>,
     <<" ", "l", "a", "s", "t", " ", "w", "e", "e", "k">>,
     <<" ", "l", "a", "s", "t", " ", "m", "o", "n", "t", "h">>,
     <<" ", "t", "o", "d", "a", "y">>,
     <<" ", "2", " ", "d", "a", "y", "s", " ", "a", "g", "o">>,
     <<" ", "i", " ", "u", "s", "e", "d">>,
     <<" ", "i", " ", "r", "a", "n">>,
     <<" ", "I", " ", "D", "i", "d">>}

IntentQueries == {h \o t : h \in IntentHeads, t \in IntentTails} \ {<<>>}

\* classify_intent
ClassifyIntent(query) ==
    /\ intent_io' = [query |-> query, intent |-> classify_intent(query)]
    /\ UNCHANGED <<storeVars, apiVars, writerVars, captureVars, maintVars,
                   cache_db, hot_cache, llm_model, ask_obs, pidVars, ioVars>>

NextIntent == \E q \in IntentQueries : ClassifyIntent(q)

SpecIntent == Init /\ [][NextIntent]_vars

(***************************************************************************)
(* SpecService: `run` and `internal-daemon` invoked at any time, their     *)
(* steps interleaved, `exit`, and a daemon ending.                         *)
(***************************************************************************)
\* a process starts with command cmd
Invoke(cmd) ==
    /\ cmd \in {"run", "internal-daemon"}
    /\ \E p \in Pids : procs[p].cmd = "none"
    /\ procs' = [procs EXCEPT ![FreshPid(procs)] =
                    [cmd |-> cmd, pc |-> IF cmd = "run" THEN "check" ELSE "save"]]
    /\ UNCHANGED <<storeVars, apiVars, writerVars, captureVars, maintVars,
                   askVars, pid_file, ioVars>>

\* start_service: if is_running() { return }
RunCheck(p) ==
    /\ procs[p] = [cmd |-> "run", pc |-> "check"]
    /\ procs' = [procs EXCEPT ![p].pc = IF is_running(pid_file, procs) THEN "done"
                                        ELSE "spawn"]
    /\ UNCHANGED <<storeVars, apiVars, writerVars, captureVars, maintVars,
                   askVars, pid_file, ioVars>>

\* start_service: Command::new(exe).arg("internal-daemon").spawn(), return
RunSpawn(p) ==
    /\ procs[p] = [cmd |-> "run", pc |-> "spawn"]
    /\ \E q \in Pids : procs[q].cmd = "none"
    /\ procs' = [procs EXCEPT ![p].pc = "done",
                              ![FreshPid(procs)] =
                                  [cmd |-> "internal-daemon", pc |-> "save"]]
    /\ UNCHANGED <<storeVars, apiVars, writerVars, captureVars, maintVars,
                   askVars, pid_file, ioVars>>

\* Commands::InternalDaemon: save_pid(), whose write error is dropped, then
\* run_service()
DaemonSavePid(p, written) ==
    /\ procs[p] = [cmd |-> "internal-daemon", pc |-> "save"]
    /\ pid_file' = IF written THEN p ELSE pid_file
    /\ procs' = [procs EXCEPT ![p].pc = "loop"]
    /\ UNCHANGED <<storeVars, apiVars, writerVars, captureVars, maintVars,
                   askVars, ioVars>>

\* run_service: while is_running() ends; shutdown(), remove_pid()
DaemonExit(p) ==
    /\ procs[p] = [cmd |-> "internal-daemon", pc |-> "loop"]
    /\ ~is_running(pid_file, procs)
    /\ pid_file' = NoPid
    /\ procs' = [procs EXCEPT ![p].pc = "done"]
    /\ UNCHANGED <<storeVars, apiVars, writerVars, captureVars, maintVars,
                   askVars, ioVars>>

\* stop_service: kill the pid of the file, remove_pid()
StopService ==
    /\ is_running(pid_file, procs)
    /\ pid_file' = NoPid
    /\ procs' = [procs EXCEPT ![pid_file].pc = "done"]
    /\ UNCHANGED <<storeVars, apiVars, writerVars, captureVars, maintVars,
                   askVars, ioVars>>

NextService ==
    \/ \E cmd \in {"run", "internal-daemon"} : Invoke(cmd)
    \/ \E p \in Pids : RunCheck(p)
    \/ \E p \in Pids : RunSpawn(p)
    \/ \E p \in Pids, written \in BOOLEAN : DaemonSavePid(p, written)
    \/ \E p \in Pids : DaemonExit(p)
    \/ StopService

SpecService == Init /\ [][NextService]_vars

(***************************************************************************)
(* SpecSearch: the store filled through the Database API, and the search   *)
(* path and the sample selector reading it.                                *)
(***************************************************************************)
SearchHosts == {NoHost}
SearchClockSteps == {SESSION_TIMEOUT, ONE_DAY}

\* the keyword lists of LLMQueryParams
SearchKeywords ==
    {<<>>, << <<"l">> >>, << <<"L", "S">> >>, << <<"l", "s">>, <<"c", "d">> >>}

SearchParams ==
    [keywords : SearchKeywords, entry_types : {"None", "shell"},
     time_range : TimeRanges]

\* the plugin lists of the manager
PluginLists ==
    {<<>>} \cup {<<p>> : p \in SearchPlugins} \cup {<<"reverse", "drop_first">>}

\* execute_search up to the prompt: keyword_search_with_params
KeywordSearch(params, lock_ok) ==
    /\ \E r \in keyword_search_with_params(entries, entries_fts, params, now, lock_ok) :
          search_obs' = [NoSearch EXCEPT !.op = "keyword_search", !.ok = r.ok,
                                         !.at = now, !.params = params,
                                         !.results = r.results]
    /\ UNCHANGED <<storeVars, apiVars, writerVars, captureVars, maintVars,
                   askVars, pidVars, filter_io, hook_io, rank_io, settings, service_pc, fp_io>>

\* execute_search from the prompt on: display_results_interactive on the
\* results of the search, the user's selection being the input
DisplayResults(selection, plugins, manager_ok) ==
    /\ search_obs.op = "keyword_search"
    /\ search_obs.ok
    /\ selection < Len(truncate(search_obs.results, MAX_RESULTS))
    /\ LET d == display_results_interactive(search_obs.results, MAX_RESULTS,
                                            selection, plugins, manager_ok)
       IN search_obs' = [NoSearch EXCEPT !.op = "display",
                                         !.results = search_obs.results,
                                         !.plugins = plugins,
                                         !.selection = selection,
                                         !.items = d.items,
                                         !.hooked = d.hooked,
                                         !.after_plugins = d.after_plugins,
                                         !.returned = d.returned]
    /\ UNCHANGED <<storeVars, apiVars, writerVars, captureVars, maintVars,
                   askVars, pidVars, filter_io, hook_io, rank_io, settings, service_pc, fp_io>>

\* build_interpret_prompt's call of SampleSelector::get_samples
GetSamples(k, strategy, env) ==
    /\ \E r \in get_samples(entries, k, strategy, env) :
          search_obs' = [NoSearch EXCEPT !.op = "get_samples", !.ok = r.ok,
                                         !.k = k, !.strategy = strategy,
                                         !.samples = r.samples]
    /\ UNCHANGED <<storeVars, apiVars, writerVars, captureVars, maintVars,
                   askVars, pidVars, filter_io, hook_io, rank_io, settings, service_pc, fp_io>>

\* The store is filled first and searched afterwards: no search changes a
\* table, so every store content is searched.
FillShell(content, host, emb) ==
    /\ search_obs.op = "none"
    /\ n_calls < MaxRows
    /\ InsertShell(content, host, emb, 0)

FillClipboard(content) ==
    /\ search_obs.op = "none"
    /\ n_calls < MaxRows
    /\ InsertClipboard(content, "blob", 0)

FillTick(d) ==
    /\ search_obs.op = "none"
    /\ Tick(d)

NextSearch ==
    \/ \E c \in Contents, h \in SearchHosts, e \in Embeddings : FillShell(c, h, e)
    \/ \E c \in Contents : FillClipboard(c)
    \/ \E d \in SearchClockSteps : FillTick(d)
    \/ \E p \in SearchParams : KeywordSearch(p, TRUE)
    \/ \E r \in TimeRanges : KeywordSearch([NoParams EXCEPT !.time_range = r], FALSE)
    \/ \E sel \in -1 .. 2, ps \in PluginLists, ok \in BOOLEAN : DisplayResults(sel, ps, ok)
    \/ \E k \in 0 .. 2, st \in SampleStrategies : GetSamples(k, st, "ok")
    \/ \E env \in SampleEnvs : GetSamples(1, "Adaptive", env)

SpecSearch == Init /\ [][NextSearch]_vars

(***************************************************************************)
(* SpecPrivacy: the privacy filter applied to captured commands.           *)
(***************************************************************************)
FilterCommands ==
    {<<"e", "x", "p", "o", "r", "t", " ", "d", "b", "_", "p", "a", "s", "s",
       "w", "o", "r", "d", "=", "f", "o", "o">>,
     <<"e", "x", "p", "o", "r", "t", " ", "D", "B", "_", "P", "A", "S", "S",
       "W", "O", "R", "D", "=", "f", "o", "o">>,
     <<"l", "s">>,
     <<"L", "S", " ", "-", "l">>}

FilterDirs == {<<"/", "w">>, <<"/", "w", "/", ".", "G", "i", "t">>}

ContainsLists ==
    {<<>>, << <<"p", "a", "s", "s", "w", "o", "r", "d">> >>,
     << <<"P", "A", "S", "S", "W", "O", "R", "D">> >>}
StartsLists == {<<>>, << <<"l", "s">> >>, << <<"L", "S">> >>}
EndsLists == {<<>>, << <<"f", "o", "o">> >>, << <<"F", "O", "O">> >>}
FolderLists == {<<>>, << <<"/", "W", "/", ".", "g", "i", "t", "/">> >>}
RegexLists == {<<>>, << <<"G", "i", "t">> >>}

NoPrivacy == NoFilter.privacy

\* the default configuration, and the configurations with one list set
PrivacyConfigs ==
    {DefaultPrivacy}
        \cup {[NoPrivacy EXCEPT !.excludes_contains_string = l] : l \in ContainsLists}
        \cup {[NoPrivacy EXCEPT !.excludes_starts_with_string = l] : l \in StartsLists}
        \cup {[NoPrivacy EXCEPT !.excludes_ends_with_string = l] : l \in EndsLists}
        \cup {[NoPrivacy EXCEPT !.exclude_folders = l] : l \in FolderLists}
        \cup {[NoPrivacy EXCEPT !.excludes_regex = l] : l \in RegexLists}

\* trigger_command_captured reaching the built-in filter
FilterCommand(command, working_dir, privacy, config_ok) ==
    /\ filter_io' = [op |-> "filter", command |-> command,
                     working_dir |-> working_dir, privacy |-> privacy,
                     config_ok |-> config_ok,
                     action |-> on_command_captured(command, working_dir,
                                                    privacy, config_ok)]
    /\ UNCHANGED <<storeVars, apiVars, writerVars, captureVars, maintVars,
                   askVars, pidVars, search_obs, hook_io, rank_io, settings, service_pc, fp_io>>

NextPrivacy ==
    \E c \in FilterCommands, d \in FilterDirs, p \in PrivacyConfigs, ok \in BOOLEAN :
        FilterCommand(c, d, p, ok)

SpecPrivacy == Init /\ [][NextPrivacy]_vars

(***************************************************************************)
(* SpecCache: the methods of FingerprintCache called in any order, in one  *)
(* process or in a new one, and the clock.                                 *)
(***************************************************************************)
CacheQueries ==
    {<<"g", "i", "t", " ", "l", "o", "g">>,
     <<"s", "s", "h", " ", "k", "e", "y">>,
     <<"s", "s", "h">>}

\* FingerprintCache::warm_up_cache
CacheWarmUp(fault) ==
    /\ n_calls < MaxCacheOps
    /\ n_calls' = n_calls + 1
    /\ \E w \in warm_up_cache(TheCache, fault) :
          /\ hot_cache' = w.hot
          /\ ask_obs' = [NoAskObs EXCEPT !.op = "warm_up", !.lookup_ok = w.ok,
                                         !.before = TheCache,
                                         !.after = [db |-> cache_db, hot |-> w.hot]]
    /\ UNCHANGED <<storeVars, upserts, ticks, writerVars, captureVars,
                   maintVars, cache_db, llm_model, intent_io, pidVars, ioVars>>

\* FingerprintCache::find_match with the threshold of try_cache_lookup
CacheFindMatch(query, fault) ==
    /\ n_calls < MaxCacheOps
    /\ n_calls' = n_calls + 1
    /\ LET m == find_match(TheCache, QueryFacts[query].fingerprint, now, fault)
       IN /\ cache_db' = m.db
          /\ hot_cache' = m.hot
          /\ ask_obs' = [NoAskObs EXCEPT !.op = "find_match", !.query = query,
                                         !.hit = m.found, !.at = now,
                                         !.before = TheCache,
                                         !.after = [db |-> m.db, hot |-> m.hot]]
    /\ UNCHANGED <<storeVars, upserts, ticks, writerVars, captureVars,
                   maintVars, llm_model, intent_io, pidVars, ioVars>>

\* FingerprintCache::insert
CacheInsert(query, fault) ==
    /\ n_calls < MaxCacheOps
    /\ n_calls' = n_calls + 1
    /\ LET r == insert(TheCache, query, QueryFacts[query].fingerprint, now, fault)
       IN /\ cache_db' = r.db
          /\ hot_cache' = r.hot
          /\ ask_obs' = [NoAskObs EXCEPT !.op = "insert", !.query = query,
                                         !.lookup_ok = r.ok, !.at = now,
                                         !.before = TheCache,
                                         !.after = [db |-> r.db, hot |-> r.hot]]
    /\ UNCHANGED <<storeVars, upserts, ticks, writerVars, captureVars,
                   maintVars, llm_model, intent_io, pidVars, ioVars>>

NextCache ==
    \/ \E f \in BOOLEAN : CacheWarmUp(f)
    \/ \E q \in CacheQueries, f \in BOOLEAN : CacheFindMatch(q, f)
    \/ \E q \in CacheQueries, f \in BOOLEAN : CacheInsert(q, f)
    \/ NewProcess
    \/ \E d \in ClockSteps : Tick(d)

SpecCache == Init /\ [][NextCache]_vars

(***************************************************************************)
(* SpecPlugins: one event of each hook dispatched by the hub to the        *)
(* registered plugins.                                                     *)
(***************************************************************************)
\* the registered plugins: external executables, scripts, the built-in
\* filter
Plugins ==
    [kind : {"external"}, subscribed : {TRUE}, run : ExternalRuns]
        \cup {[kind |-> "external", subscribed |-> FALSE, run |-> "stop"]}
        \cup [kind : {"script"}, subscribed : {TRUE}, run : ScriptRuns]
        \cup {[kind |-> "filter", subscribed |-> TRUE, run |-> "native"]}

PluginSeqs == UNION {[1 .. n -> Plugins] : n \in 0 .. MaxPlugins}

\* the captured command of the event: one the default lists exclude, one
\* they do not
HookCommands == {<<"j", "s">>, <<"l", "s">>}

\* PluginManager::trigger_command_captured, trigger_search_after,
\* trigger_llm_before, trigger_daemon_tick
TriggerHook(hook, plugins, command) ==
    /\ hook_io.op = "none"
    /\ LET answers == [i \in 1 .. Len(plugins) |->
                          PluginHook(hook, plugins[i], command)]
           called == CalledFrom(hook, answers, 1)
       IN hook_io' = [op |-> "trigger", hook |-> hook, plugins |-> plugins,
                      answers |-> answers,
                      replies |-> [i \in 1 .. Len(plugins) |->
                                      PluginReply(hook, plugins[i], command)],
                      called |-> called,
                      proceed |-> IF hook = "on_command_captured"
                                  THEN trigger_command_captured(answers)
                                  ELSE IF hook = "on_llm_before"
                                  THEN trigger_llm_before(answers)
                                  ELSE TRUE]
    /\ UNCHANGED <<storeVars, apiVars, writerVars, captureVars, maintVars,
                   askVars, pidVars, search_obs, filter_io, rank_io, settings, service_pc, fp_io>>

NextPlugins ==
    /\ hook_io.op = "none"
    /\ \E h \in Hooks, ps \in PluginSeqs, c \in HookCommands : TriggerHook(h, ps, c)

SpecPlugins == Init /\ [][NextPlugins]_vars

(***************************************************************************)
(* SpecRank: the ranking that ends keyword_search,                         *)
(* keyword_search_with_params and semantic_search, on the candidate rows   *)
(* of one call.                                                            *)
(***************************************************************************)
\* scores of row i of a candidate list, in thousandths
ScorePatterns == {"rising", "falling", "flat", "saw", "pairs"}
Score(pattern, i) ==
    IF pattern = "rising" THEN 100 * i
    ELSE IF pattern = "falling" THEN 3000 - 100 * i
    ELSE IF pattern = "flat" THEN 800
    ELSE IF pattern = "saw" THEN 100 * ((7 * i) % 10)
    ELSE 100 * ((i + 1) \div 2)

\* how many distinct contents the rows cycle through
ContentCycles == {1, 2, 3, 21, 22, 30}

\* n rows: row i has content i mod m and the score of the pattern
Candidates(n, m, pattern) ==
    [i \in 1 .. n |-> [id |-> i, content |-> i % m, similarity |-> Score(pattern, i)]]

\* config.search.similarity_threshold, in thousandths (default 0.8)
Thresholds == {0, 800, 1500}

RankKeyword(n, m, pattern) ==
    /\ rank_io.op = "none"
    /\ rank_io' = [op |-> "keyword_search", rows |-> Candidates(n, m, pattern),
                   threshold |-> -1,
                   results |-> rank_results(Candidates(n, m, pattern))]
    /\ UNCHANGED <<storeVars, apiVars, writerVars, captureVars, maintVars,
                   askVars, pidVars, search_obs, filter_io, hook_io,
                   settings, service_pc, fp_io>>

RankKeywordParams(n, m, pattern) ==
    /\ rank_io.op = "none"
    /\ rank_io' = [op |-> "keyword_search_with_params",
                   rows |-> Candidates(n, m, pattern), threshold |-> -1,
                   results |-> rank_results(Candidates(n, m, pattern))]
    /\ UNCHANGED <<storeVars, apiVars, writerVars, captureVars, maintVars,
                   askVars, pidVars, search_obs, filter_io, hook_io,
                   settings, service_pc, fp_io>>

RankSemantic(n, m, pattern, threshold, vec_ok) ==
    /\ rank_io.op = "none"
    /\ rank_io' = [op |-> "semantic_search", rows |-> Candidates(n, m, pattern),
                   threshold |-> threshold,
                   results |-> semantic_search(Candidates(n, m, pattern),
                                               threshold, vec_ok)]
    /\ UNCHANGED <<storeVars, apiVars, writerVars, captureVars, maintVars,
                   askVars, pidVars, search_obs, filter_io, hook_io,
                   settings, service_pc, fp_io>>

NextRank ==
    \/ \E n \in 0 .. MaxCands, m \in ContentCycles, p \in ScorePatterns :
          RankKeyword(n, m, p)
    \/ \E n \in 0 .. MaxCands, m \in ContentCycles, p \in ScorePatterns :
          RankKeywordParams(n, m, p)
    \/ \E n \in 0 .. MaxCands, m \in ContentCycles, p \in ScorePatterns,
          th \in Thresholds, v \in BOOLEAN : RankSemantic(n, m, p, th, v)

SpecRank == Init /\ [][NextRank]_vars

(***************************************************************************)
(* SpecToggles: run_service (the initial history load, the clipboard       *)
(* thread, the shell thread), capture_command and the capture toggles.     *)
(***************************************************************************)
Toggles == {"capture_clipboard", "capture_shell",
            "capture_shell_history_with_files"}

\* Settings::toggle_clipboard, toggle_shell, toggle_shell_history
ToggleSetting(name) ==
    /\ settings' = [settings EXCEPT ![name] = ~settings[name]]
    /\ UNCHANGED <<storeVars, apiVars, writerVars, captureVars, maintVars,
                   askVars, pidVars, search_obs, filter_io, hook_io, rank_io,
                   service_pc, fp_io>>

\* run_service, one command of the initial load: read_all_histories is
\* called with the case-sensitivity setting alone (false when the settings
\* lock is poisoned)
InitialLoad(shell, line, settings_ok, case_sensitive, fault) ==
    /\ service_pc = "load"
    /\ SweepCommand(shell, line, settings_ok /\ case_sensitive, fault)

\* run_service spawning its threads after the initial load
SpawnThreads ==
    /\ service_pc = "load"
    /\ sweeper = "ready"
    /\ service_pc' = "loops"
    /\ UNCHANGED <<storeVars, apiVars, writerVars, captureVars, maintVars,
                   askVars, pidVars, search_obs, filter_io, hook_io, rank_io,
                   settings, fp_io>>

\* the service stopped and run_service started again
Restart ==
    /\ service_pc = "loops"
    /\ service_pc' = "load"
    /\ sweeper' = "ready"
    /\ UNCHANGED <<storeVars, apiVars, writerVars, last_clip, last_context, obs,
                   maintVars, askVars, pidVars, search_obs, filter_io, hook_io, rank_io,
                   settings, fp_io>>

\* the clipboard thread's loop body; a poisoned settings lock reads as off
ClipboardThread(clip, window, settings_ok, context_ok, emb_ok, fault) ==
    /\ service_pc = "loops"
    /\ settings_ok /\ settings.capture_clipboard
    /\ ClipCheck(clip, window, context_ok, emb_ok, fault)

\* the shell thread's loop body, one command of read_all_histories
ShellThread(shell, line, settings_ok, case_sensitive, fault) ==
    /\ service_pc = "loops"
    /\ settings_ok
    /\ settings.capture_shell /\ settings.capture_shell_history_with_files
    /\ SweepCommand(shell, line, case_sensitive, fault)

\* capture_command for a command the shell hook sent to the running service
HookCapture(cmd, host, env) ==
    /\ service_pc = "loops"
    /\ env.capture_shell = settings.capture_shell
    /\ CaptureCommand(cmd, host, env)

\* what capture_command meets here: the plugins approve or veto, the locks
\* are free or the settings lock is busy
ToggleEnvs ==
    {e \in CaptureEnvs : /\ ~e.plugins_busy /\ ~e.monitor_busy /\ e.emb_ok
                         /\ e.fault = 0 /\ ~e.shell_case_sensitive
                         /\ e.answers \in {<<"Continue", "Continue">>,
                                           <<"Continue", "Skip">>}}

NextToggles ==
    \/ \E name \in Toggles : ToggleSetting(name)
    \/ \E sh \in Shells, c \in CaptureCmds, ok, cs, f \in BOOLEAN :
          InitialLoad(sh, c, ok, cs, f)
    \/ SpawnThreads
    \/ Restart
    \/ \E c \in ClipValues, w \in WindowInfos, ok \in BOOLEAN :
          ClipboardThread(c, w, ok, TRUE, TRUE, 0)
    \/ \E sh \in Shells, c \in CaptureCmds, ok, cs, f \in BOOLEAN :
          ShellThread(sh, c, ok, cs, f)
    \/ \E c \in CaptureCmds, h \in CaptureHosts, e \in ToggleEnvs :
          HookCapture(c, h, e)

SpecToggles == Init /\ [][NextToggles]_vars

(***************************************************************************)
(* SpecFingerprint: QueryFingerprint::from_query and similarity of         *)
(* fingerprint.rs on pairs of queries.                                     *)
(***************************************************************************)
\* the words of the generated queries: keywords, stop words, a short token
Vocabulary ==
    {<<"s", "s", "h">>, <<"y", "e", "s", "t", "e", "r", "d", "a", "y">>,
     <<"S", "h", "o", "w">>, <<"m", "e">>, <<"l", "s">>, <<"f", "i", "l", "e">>}

\* the queries of tests::test_fingerprint_similarity, and two more
ExampleQueries ==
    {<<"s", "s", "h", " ", "y", "e", "s", "t", "e", "r", "d", "a", "y">>,
     <<"s", "h", "o", "w", " ", "m", "e", " ", "s", "s", "h", " ", "f", "r", "o", "m",
       " ", "y", "e", "s", "t", "e", "r", "d", "a", "y">>,
     <<"s", "s", "h", " ", "n", "o", "t", " ", "t", "o", "d", "a", "y">>,
     <<"g", "e", "t", " ", "a", " ", "s", "s", "h", " ", "n", "o", "t", " ", "i", "n",
       " ", "t", "o", "d", "a", "y">>}

FingerprintQueries ==
    {join(ws) : ws \in UNION {[1 .. n -> Vocabulary] : n \in 1 .. MaxWords}}
        \cup ExampleQueries

\* from_query of both queries, then similarity
CompareQueries(a, b) ==
    /\ fp_io.op = "none"
    /\ fp_io' = [op |-> "similarity", a |-> a, b |-> b,
                 score |-> fingerprint_similarity(from_query(a), from_query(b))]
    /\ UNCHANGED <<storeVars, apiVars, writerVars, captureVars, maintVars,
                   askVars, pidVars, search_obs, filter_io, hook_io, rank_io,
                   settings, service_pc>>

NextFingerprint ==
    /\ fp_io.op = "none"
    /\ \E a, b \in FingerprintQueries : CompareQueries(a, b)

SpecFingerprint == Init /\ [][NextFingerprint]_vars

(***************************************************************************)
(* C1.  For every (content, host) pair, host possibly absent: once the     *)
(* pair has been inserted the store holds exactly one shell row for it     *)
(* and that row's times_run is the number of insert_shell calls that       *)
(* performed their upsert for the pair (a call whose UPDATE/INSERT the     *)
(* store rejected inserted nothing and is not counted; a call that failed  *)
(* later, in association tracking, is); a pair never inserted has no row.  *)
(* The same content under two hosts is two rows, each with its own count.  *)
(***************************************************************************)
RowsOf(p) == {e \in ShellRows(entries) : e.content = p[1] /\ e.host = p[2]}

SeqsOf(q) == [i \in 1 .. Len(q) |-> q[i].seq]

\* arrival numbers along the writer: finished, in hand, batched, queued
Pipeline ==
    SeqsOf(settled) \o (IF cur = NoItem THEN <<>> ELSE <<cur.seq>>)
        \o SeqsOf(batch) \o SeqsOf(queue)

\* what the attempts made for each shell entry wrote
ShellEffects ==
    (IF cur.kind = "shell" THEN {cur_fx} ELSE {})
        \cup {settled[i].fx : i \in {j \in 1 .. Len(settled) : settled[j].kind = "shell"}}

(***************************************************************************)
(* C2.  One shell-capture event commits its upsert, its session row and    *)
(* its edges together or not at all: for every entry the writer handles,   *)
(* the number of upserts executed and of session rows written both equal   *)
(* the number of insert_shell calls that ran to completion (0 or 1), so    *)
(* the event changes times_run by exactly one.                             *)
(***************************************************************************)
C2_Atomic ==
    \A fx \in ShellEffects : fx.upserts = fx.full /\ fx.sessions = fx.full

(***************************************************************************)
(* C3.  A clipboard poll creates a clipboard row exactly when the polled   *)
(* value is non-empty and differs from the value ClipMon last took: after  *)
(* every poll, a row was written if and only if the value was fresh.       *)
(***************************************************************************)
C3_RowPerFreshValue ==
    obs.op = "clip" => (obs.wrote <=> obs.fresh)

(***************************************************************************)
(* C4.  A shell command is written to the store (inserted or bumped) only  *)
(* after the on_command_captured hook ran for it and no plugin answered    *)
(* Stop or Skip: this for the shell hook's captures and for the history    *)
(* sweep, and whatever the state of the plugin lock.                       *)
(***************************************************************************)
C4_HookBeforeStore ==
    (obs.op \in {"capture", "sweep"} /\ obs.wrote) => obs.hook = "approved"

C6_Drained ==
    daemon = "exited" => queue = <<>> /\ batch = <<>> /\ cur = NoItem

(***************************************************************************)
(* C7.  A producer is never suspended in DbWriter::insert_shell /           *)
(* insert_clipboard waiting for room (a full channel makes the call        *)
(* return an error), and the channel never holds more than its capacity.   *)
(***************************************************************************)
C7_NoBlocking ==
    /\ \A p \in Producers : senders[p].pc # "blocked"
    /\ Len(queue) <= QueueCap

(***************************************************************************)
(* C8.  Each entry gets at most max_retries = 3 insert attempts, with a    *)
(* sleep of 100 ms after the first failure and 200 ms after the second;    *)
(* an entry is dropped only by its third failure; and a drop discards      *)
(* nothing else: every entry that entered the channel is finished, in      *)
(* hand, in the batch or still queued.                                     *)
(***************************************************************************)
Backoff(n) == [i \in 1 .. n |-> IF i = 1 THEN 100 ELSE 200]

C8_Retry ==
    /\ attempt < max_retries
    /\ waits = Backoff(attempt)
    /\ \A i \in 1 .. Len(settled) :
          /\ settled[i].attempts \in 1 .. max_retries
          /\ settled[i].waits = Backoff(settled[i].attempts - 1)
          /\ settled[i].outcome = "dropped" =>
                settled[i].attempts = max_retries /\ settled[i].fx.full = 0
    /\ Len(Pipeline) = next_seq - 1

\* an entry dropped after three failures, and a later entry of the same
\* batch inserted
C8_Witness ==
    \E i, j \in 1 .. Len(settled) :
        /\ i < j
        /\ settled[i].outcome = "dropped"
        /\ settled[i].waits = <<100, 200>>
        /\ settled[j].batch = settled[i].batch
        /\ settled[j].outcome = "ok"

(***************************************************************************)
(* C9.  A failure of generate_embedding never keeps an entry out of the    *)
(* store: a capture or a poll that was due to be stored (it passed the     *)
(* filters and the store accepted the statement) wrote its row also when   *)
(* the embedding could not be computed.                                    *)
(***************************************************************************)
C9_StoredWithoutEmbedding ==
    (obs.op \in {"capture", "clip"} /\ obs.due /\ ~obs.emb_ok) => obs.wrote

(***************************************************************************)
(* C10.  Re-ingesting a command that the store already holds with the      *)
(* history sweep leaves table entries as insert_shell(command, host        *)
(* absent, time of the sweep) would: times_run + 1 on the row of the same  *)
(* content and host, its timestamp set, no row of another host touched.    *)
(***************************************************************************)
C10_SweepIsUpsert ==
    obs.op = "sweep" => obs.as_upsert

(***************************************************************************)
(* C11.  Every entry has times_run >= 1 in every reachable state, and no   *)
(* step (insert_shell, increment_shell_command, insert_clipboard,          *)
(* retention cleanup, maintenance) lowers the times_run of an entry that   *)
(* is still there after the step.                                          *)
(***************************************************************************)
C11_RunCountMonotone ==
    /\ [](\A e \in entries : e.times_run >= 1)
    /\ [][\A e \in entries, f \in entries' :
             f.id = e.id => f.times_run >= e.times_run]_vars

\* a row run more than once has survived a retention cleanup
C11_Witness ==
    /\ obs.op = "maintain"
    /\ \E e \in entries : e.times_run >= 2 /\ e \in obs.after

(***************************************************************************)
(* C12.  After cleanup_old_entries(clip_cap, shell_cap) returned Ok: at    *)
(* most clip_cap clipboard rows and shell_cap shell rows are left; no row  *)
(* was added or changed; no deleted row is newer (by timestamp) than a     *)
(* surviving row of its kind; a kind within its cap lost nothing; and a    *)
(* second cleanup with the same caps can only leave the table as it is.    *)
(***************************************************************************)
C12_Retention ==
    (obs.op = "maintain" /\ obs.cleaned) =>
        LET b == obs.before
            a == obs.after
            clip_cap == obs.caps[1]
            shell_cap == obs.caps[2]
        IN /\ Cardinality(ClipRows(a)) <= clip_cap
           /\ Cardinality(ShellRows(a)) <= shell_cap
           /\ a \subseteq b
           /\ \A d \in b \ a, k \in a :
                 d.entry_type = k.entry_type => d.timestamp <= k.timestamp
           /\ Cardinality(ClipRows(b)) <= clip_cap => ClipRows(a) = ClipRows(b)
           /\ Cardinality(ShellRows(b)) <= shell_cap => ShellRows(a) = ShellRows(b)
           /\ cleanup_old_entries(a, clip_cap, shell_cap, 0) = {a}

\* a cleanup deleted an older row and kept a newer one of the same kind
C12_Witness ==
    /\ obs.op = "maintain"
    /\ obs.cleaned
    /\ \E d \in obs.before \ obs.after, k \in obs.after :
          d.entry_type = k.entry_type /\ d.timestamp < k.timestamp

(***************************************************************************)
(* C13.  A call of ask that cached its plan leaves exactly one record of   *)
(* its query in table fingerprint_cache and exactly one in the hot list,   *)
(* both with last_used the time of that call: caching a query that is      *)
(* cached already replaces its record.                                     *)
(***************************************************************************)
C13_OneRecordPerQuery ==
    (ask_obs.op = "ask" /\ ask_obs.cached) =>
        LET a == ask_obs.after
            q == ask_obs.query
            rows == {r \in a.db : r.query = q}
            hots == {i \in DOMAIN a.hot : a.hot[i].query = q}
        IN /\ Cardinality(rows) = 1
           /\ Cardinality(hots) = 1
           /\ \A r \in rows : r.last_used = ask_obs.at
           /\ \A i \in hots : a.hot[i].last_used = ask_obs.at

(***************************************************************************)
(* C14.  A cache hit raises the hit_count of the matched record by exactly *)
(* one and sets its last_used to the time of the hit, in the table and in  *)
(* the hot list, so a record of the hot list and the table row of the same *)
(* query have the same hit_count.                                          *)
(***************************************************************************)
C14_HitCountedOnce ==
    (ask_obs.op = "ask" /\ ask_obs.hit # NoQuery) =>
        LET b == ask_obs.before
            a == ask_obs.after
        IN /\ \A r \in b.db, r2 \in a.db :
                 (r.query = ask_obs.hit /\ r2.query = ask_obs.hit) =>
                     /\ r2.hit_count = r.hit_count + 1
                     /\ r2.last_used = ask_obs.at
           /\ \A i \in DOMAIN a.hot, r2 \in a.db :
                 a.hot[i].query = r2.query => a.hot[i].hit_count = r2.hit_count

(***************************************************************************)
(* C15.  A retrieval query of one word is answered by the lexical search,  *)
(* whatever the state of the model: not installed, not running, or the     *)
(* model missing.                                                          *)
(***************************************************************************)
C15_OneWordIsLexical ==
    (ask_obs.op = "ask" /\ ask_obs.intent = "Retrieval" /\ ask_obs.words = 1) =>
        (ask_obs.out = "SearchResults" /\ ask_obs.via = "lexical")

(***************************************************************************)
(* C16.  When the model call of a retrieval query of several words fails   *)
(* or times out, ask returns search results, not the error.                *)
(***************************************************************************)
C16_ModelFailureFallsBack ==
    (/\ ask_obs.op = "ask"
     /\ ask_obs.intent = "Retrieval"
     /\ ask_obs.words > 1
     /\ ask_obs.model_called
     /\ ~ask_obs.gen_ok) =>
        ask_obs.out = "SearchResults"

(***************************************************************************)
(* C17.  The cache tier being unavailable never fails a query.  A lookup   *)
(* that is skipped (embedding lock busy, embedding fails) or returns an    *)
(* error is a miss, and the query goes to the model tier; when caching the *)
(* model's plan fails or is skipped, the search with that plan still runs  *)
(* and its results are returned.                                           *)
(***************************************************************************)
C17_CacheTierNeverFatal ==
    (/\ ask_obs.op = "ask"
     /\ ask_obs.intent = "Retrieval"
     /\ ask_obs.words > 1
     /\ ask_obs.init_ok) =>
        /\ ask_obs.hit = NoQuery => ask_obs.model_called
        /\ (~ask_obs.lookup_ok \/ ask_obs.lookup \in {"embed_busy", "embed_err"}) =>
              (ask_obs.hit = NoQuery /\ ask_obs.model_called)
        /\ (ask_obs.model_called /\ ask_obs.gen_ok) =>
              /\ ask_obs.via = "model_plan"
              /\ ask_obs.search => ask_obs.out = "SearchResults"

C17_Witness ==
    /\ ask_obs.op = "ask"
    /\ ~ask_obs.lookup_ok
    /\ ask_obs.looked_up
    /\ ask_obs.model_called
    /\ ask_obs.out = "SearchResults"

(***************************************************************************)
(* C18.  A Knowledge query calls the model for the answer and nothing      *)
(* else: no entry row is read, the cache is not looked up, and no cache    *)
(* record is inserted or updated.                                          *)
(***************************************************************************)
C18_KnowledgeOnlyAnswers ==
    (ask_obs.op = "ask" /\ ask_obs.intent = "Knowledge") =>
        /\ ~ask_obs.entries_read
        /\ ~ask_obs.looked_up
        /\ ~ask_obs.cached
        /\ ask_obs.hit = NoQuery
        /\ ask_obs.after = ask_obs.before
        /\ ask_obs.via \in {"answer", "none"}
        /\ ask_obs.out = "Knowledge" <=> ask_obs.via = "answer"
        /\ ask_obs.init_ok => ask_obs.model_called

C18_Witness ==
    /\ ask_obs.op = "ask"
    /\ ask_obs.intent = "Knowledge"
    /\ ask_obs.out = "Knowledge"
    /\ ask_obs.before.db # {}
    /\ ask_obs.before.hot # <<>>

(***************************************************************************)
(* C19.  classify_intent returns Knowledge exactly when the lowercased     *)
(* query begins with one of the five knowledge prefixes, and Retrieval for *)
(* every other query; a temporal marker after such a prefix does not       *)
(* change the answer.                                                      *)
(***************************************************************************)
C19_IntentByPrefix ==
    intent_io.intent # "unset" =>
        LET q == to_lowercase(intent_io.query)
            begins == \E p \in KnowledgePrefixes :
                         /\ Len(q) >= Len(p)
                         /\ \A i \in 1 .. Len(p) : q[i] = p[i]
        IN intent_io.intent = IF begins THEN "Knowledge" ELSE "Retrieval"

C19_Witness ==
    /\ intent_io.intent = "Knowledge"
    /\ \E m \in TemporalMarkers : contains(to_lowercase(intent_io.query), m)

(***************************************************************************)
(* C20.  At most one daemon is inside run_service at any time, and the PID *)
(* file names it.                                                          *)
(***************************************************************************)
C20_SingleDaemon ==
    /\ Cardinality(RunningDaemons) <= 1
    /\ \A p \in RunningDaemons : pid_file = p

(***************************************************************************)
(* C24.  While shell case-insensitive mode is on, the content that a       *)
(* capture or a sweep of any history file (bash, zsh, fish) hands to the   *)
(* store, for the lookup that dedups it and for the insert, is lowercase.  *)
(***************************************************************************)
C24_LowercaseWhenInsensitive ==
    (obs.op \in {"capture", "sweep"} /\ obs.folded /\ obs.text # <<>>) =>
        obs.text = to_lowercase(obs.text)

(***************************************************************************)
(* C25.  A command that begins with one of the tool's own names (jotx, js, *)
(* ja) changes nothing in the store, whether it is captured or found in a  *)
(* history file, whatever the settings and the plugins.                    *)
(***************************************************************************)
C25_OwnCommandsDropped ==
    (/\ obs.op \in {"capture", "sweep"}
     /\ \/ starts_with(obs.raw, SERVICE_NAME)
        \/ starts_with(obs.raw, SERVICE_NAME_SHORT)
        \/ starts_with(obs.raw, SERVICE_NAME_SHORT2)) =>
        ~obs.wrote

(***************************************************************************)
(* C30.  After any sequence of inserts, times_run and timestamp updates    *)
(* and retention deletes, the lexical index holds exactly one document per *)
(* row of table entries, with that row's id and indexed text, and none for *)
(* a deleted row.                                                          *)
(***************************************************************************)
C30_IndexMatchesEntries ==
    entries_fts = {FtsDoc(e) : e \in entries}

(***************************************************************************)
(* C27.  A shell insert that records position p of its session writes one  *)
(* edge (prev -> curr) for each entry at positions p-1, p-2, p-3 of that   *)
(* session and no other, and the edge from the entry at position p-d has   *)
(* sequence_order d.                                                       *)
(***************************************************************************)
C27_EdgeOrderIsDistance ==
    [][\A r \in command_sessions' \ command_sessions :
          LET before == {s \in command_sessions :
                           /\ s.session_id = r.session_id
                           /\ s.position < r.position
                           /\ s.position >= r.position - ASSOCIATION_DEPTH}
              written == command_associations' \ command_associations
          IN {<<x.a, x.b, x.ord>> : x \in written}
               = {<<s.entry_id, r.entry_id, r.position - s.position>> : s \in before}
      ]_vars

C29_EdgeStrengthCounts ==
    /\ [](\A x, y \in command_associations :
            (x.a = y.a /\ x.b = y.b /\ x.ord = y.ord) => x = y)
    /\ [][\A r \in command_sessions' \ command_sessions :
            LET before == {s \in command_sessions :
                             /\ s.session_id = r.session_id
                             /\ s.position < r.position
                             /\ s.position >= r.position - ASSOCIATION_DEPTH}
                Strength(as, a, b, ord) ==
                    LET xs == {x \in as : x.a = a /\ x.b = b /\ x.ord = ord}
                    IN IF xs = {} THEN 0 ELSE (CHOOSE x \in xs : TRUE).strength
            IN /\ \A a \in {e.id : e \in entries'} : \A d \in 1..ASSOCIATION_DEPTH :
                     Strength(command_associations', a, r.entry_id, d)
                       = Strength(command_associations, a, r.entry_id, d)
                           + Cardinality({s \in before :
                                 s.entry_id = a /\ r.position - s.position = d})
               /\ \A x \in command_associations :
                     \/ x \in command_associations'
                     \/ [x EXCEPT !.strength = @ + 1, !.last_seen = r.timestamp]
                           \in command_associations'
               /\ \A y \in command_associations' \ command_associations :
                     \/ y.strength = 1 /\ y.last_seen = r.timestamp
                           /\ ~\E x \in command_associations :
                                 x.a = y.a /\ x.b = y.b /\ x.ord = y.ord
                     \/ \E x \in command_associations :
                           y = [x EXCEPT !.strength = @ + 1,
                                         !.last_seen = r.timestamp]
       ]_vars


(***************************************************************************)
(* C21.  With time range today, keyword_search_with_params returns no row  *)
(* whose timestamp is earlier than today's local midnight, also when the   *)
(* search is made exactly at midnight.                                     *)
(***************************************************************************)
C21_TodayExcludesPriorDays ==
    (/\ search_obs.op = "keyword_search"
     /\ search_obs.ok
     /\ search_obs.params.time_range = "Today") =>
        \A i \in 1 .. Len(search_obs.results) :
            search_obs.results[i].timestamp >= start_of_day(search_obs.at)

(***************************************************************************)
(* C22.  What the caller of a search receives is the list as the           *)
(* on_search_after plugins left it: the rows offered for selection are     *)
(* that list, and the row handed back is one of its rows.                  *)
(***************************************************************************)
C22_PluginListIsReturned ==
    (search_obs.op = "display" /\ search_obs.hooked) =>
        /\ search_obs.items = truncate(search_obs.after_plugins, MAX_RESULTS)
        /\ \E i \in 1 .. Len(search_obs.after_plugins) :
              search_obs.after_plugins[i] = search_obs.returned

(***************************************************************************)
(* C23.  The privacy filter answers Skip whenever the command contains,    *)
(* starts with or ends with a listed literal, letter case ignored on both  *)
(* sides.                                                                  *)
(***************************************************************************)
C23_FilterIgnoresCase ==
    (/\ filter_io.op = "filter"
     /\ filter_io.config_ok
     /\ LET cmd == to_lowercase(filter_io.command)
            p == filter_io.privacy
        IN \/ \E i \in 1 .. Len(p.excludes_contains_string) :
                 contains(cmd, to_lowercase(p.excludes_contains_string[i]))
           \/ \E i \in 1 .. Len(p.excludes_starts_with_string) :
                 starts_with(cmd, to_lowercase(p.excludes_starts_with_string[i]))
           \/ \E i \in 1 .. Len(p.excludes_ends_with_string) :
                 ends_with(cmd, to_lowercase(p.excludes_ends_with_string[i]))) =>
        filter_io.action = "Skip"

(***************************************************************************)
(* C26.  When the store holds a shell entry with an embedding and k >= 1,  *)
(* get_samples returns at least one and at most k samples, each the        *)
(* content of a stored shell entry.                                        *)
(***************************************************************************)
C26_SamplesFromShellEntries ==
    (/\ search_obs.op = "get_samples"
     /\ search_obs.ok
     /\ search_obs.k >= 1
     /\ \E e \in ShellRows(entries) : e.embedding # "NULL") =>
        /\ Len(search_obs.samples) >= 1
        /\ Len(search_obs.samples) <= search_obs.k
        /\ \A i \in 1 .. Len(search_obs.samples) :
              \E e \in ShellRows(entries) : e.content = search_obs.samples[i].command

(***************************************************************************)
(* C31.  Every session row and every co-occurrence edge refers to entry    *)
(* ids that exist in entries: a retention cleanup that deletes an entry    *)
(* also removes its session rows and its edges.                            *)
(***************************************************************************)
C31_NoDanglingReferences ==
    /\ \A s \in command_sessions : \E e \in entries : e.id = s.entry_id
    /\ \A x \in command_associations :
          (\E e \in entries : e.id = x.a) /\ (\E e \in entries : e.id = x.b)

(***************************************************************************)
(* C32.  ShellMon::add_or_increment always returns: after it has handled a *)
(* swept command its thread is neither blocked on the store mutex nor      *)
(* ended by a panic, and the store holds a shell row for the command.      *)
(***************************************************************************)
C32_AddOrIncrementReturns ==
    obs.op = "sweep" =>
        /\ sweeper = "ready"
        /\ \E e \in ShellRows(entries) : e.content = obs.text

(***************************************************************************)
(* C33.  The hot list never holds more records than its capacity.  It is   *)
(* loaded from the persistent table only by a warm-up that finds it empty, *)
(* and then takes the most recently used rows, up to the capacity: a       *)
(* warm-up of a non-empty list, a lookup and an insert load nothing.       *)
(***************************************************************************)
C33_HotListBounded ==
    /\ Len(hot_cache) <= HotCap
    /\ ask_obs.op = "warm_up" =>
          LET b == ask_obs.before
              a == ask_obs.after
              loaded == {a.hot[i] : i \in 1 .. Len(a.hot)}
          IN /\ b.hot # <<>> => a.hot = b.hot
             /\ (b.hot = <<>> /\ ask_obs.lookup_ok) =>
                   /\ Len(a.hot) = Min({HotCap, Cardinality(b.db)})
                   /\ Cardinality(loaded) = Len(a.hot)
                   /\ loaded \subseteq b.db
                   /\ \A r \in loaded, d \in b.db \ loaded : d.last_used <= r.last_used
    /\ ask_obs.op = "find_match" =>
          /\ Len(ask_obs.after.hot) = Len(ask_obs.before.hot)
          /\ \A i \in 1 .. Len(ask_obs.after.hot) :
                ask_obs.after.hot[i].query = ask_obs.before.hot[i].query
    /\ ask_obs.op = "insert" =>
          \A i \in 1 .. Len(ask_obs.after.hot) :
              \/ \E j \in 1 .. Len(ask_obs.before.hot) :
                    ask_obs.after.hot[i] = ask_obs.before.hot[j]
              \/ ask_obs.after.hot[i].query = ask_obs.query

\* a warm-up in a new process that loaded a full hot list from a table with
\* more rows than the capacity
C33_Witness ==
    /\ ask_obs.op = "warm_up"
    /\ ask_obs.lookup_ok
    /\ ask_obs.before.hot = <<>>
    /\ Cardinality(ask_obs.before.db) > HotCap
    /\ Len(hot_cache) = HotCap

(***************************************************************************)
(* C34.  An insert into a full hot list evicts exactly one record, one     *)
(* whose (hit_count, last_used) pair is least among the hot records, the   *)
(* new one included; the persistent table is left as the INSERT left it,   *)
(* so the evicted query's row is still there.                              *)
(***************************************************************************)
C34_EvictsLeastUsed ==
    (ask_obs.op = "insert" /\ ask_obs.lookup_ok
        /\ Len(ask_obs.before.hot) = HotCap) =>
        LET b == ask_obs.before
            a == ask_obs.after
            rec == CHOOSE r \in a.db : r.query = ask_obs.query
            hot1 == Append(b.hot, rec)
            less(x, y) == \/ x.hit_count < y.hit_count
                          \/ x.hit_count = y.hit_count /\ x.last_used < y.last_used
        IN /\ rec.hit_count = 1 /\ rec.last_used = ask_obs.at
           /\ a.db = {r \in b.db : r.query # ask_obs.query} \cup {rec}
           /\ \E idx \in 1 .. Len(hot1) :
                 /\ a.hot = SubSeq(hot1, 1, idx - 1) \o SubSeq(hot1, idx + 1, Len(hot1))
                 /\ \A j \in 1 .. Len(hot1) : ~less(hot1[j], hot1[idx])
                 /\ \E r \in a.db : r.query = hot1[idx].query

\* an eviction that passed over an older record with more hits
C34_Witness ==
    /\ ask_obs.op = "insert"
    /\ ask_obs.lookup_ok
    /\ Len(ask_obs.before.hot) = HotCap
    /\ \E i \in 1 .. Len(ask_obs.after.hot) :
          /\ ask_obs.after.hot[i].hit_count > 1
          /\ ask_obs.after.hot[i] = ask_obs.before.hot[1]
    /\ ask_obs.after.hot # Tail(ask_obs.before.hot) \o
          <<CHOOSE r \in ask_obs.after.db : r.query = ask_obs.query>>


\* C35: maintain() calls, in this order and each at most once, the retention
\* trim, the weak-edge prune, the session prune and VACUUM; the trim is called
\* on every invocation; the other three are called only when the
\* .last_maintenance file gave no timestamp or more than 7 days have passed
\* since it; and the timestamp changes only when all three returned Ok.
C35_MaintenanceOrder ==
    obs.op = "maintain" =>
        LET Order == <<"cleanup_old_entries", "cleanup_weak_associations",
                       "cleanup_old_sessions", "VACUUM",
                       "update_last_maintenance">>
            n == Len(obs.steps)
            ran(name) == \E i \in 1 .. n : obs.steps[i][1] = name
            done(name) == \E i \in 1 .. n : obs.steps[i] = <<name, TRUE>>
            Gated == {"cleanup_weak_associations", "cleanup_old_sessions",
                      "VACUUM"}
        IN /\ n >= 1
           /\ n <= Len(Order)
           /\ \A i \in 1 .. n : obs.steps[i][1] = Order[i]
           /\ (\E name \in Gated : ran(name)) =>
                 (obs.last = NoFile \/ obs.at - obs.last > 7 * 24 * 60 * 60)
           /\ last_maintenance # obs.last =>
                 /\ \A name \in Gated : done(name)
                 /\ last_maintenance = obs.at

\* a maintain() less than 7 days after a completed one: the trim alone ran
C35_Witness ==
    /\ obs.op = "maintain"
    /\ obs.last # NoFile
    /\ obs.at > obs.last
    /\ Len(obs.steps) = 1
    /\ last_maintenance = obs.last

\* C36: for every hook the hub calls the plugins in registration order, and
\* once a called plugin has answered stop or skip it calls no later plugin.
C36_StopShortCircuits ==
    hook_io.op = "trigger" =>
        LET n == Len(hook_io.called)
        IN /\ \A i \in 1 .. n : hook_io.called[i] = i
           /\ \A i \in 1 .. n :
                 hook_io.replies[i] \in {"stop", "skip"} => i = n

\* C37: a plugin hook that fails (the executable cannot be spawned, exits
\* non-zero or prints no parsable response; the script crashes) counts as
\* Continue: the hub goes on to the next registered plugin, and it lets the
\* event proceed unless some plugin answered Stop or Skip.
C37_ErrorIsContinue ==
    hook_io.op = "trigger" =>
        LET n == Len(hook_io.plugins)
            is_called(i) == \E k \in 1 .. Len(hook_io.called) : hook_io.called[k] = i
            failed(i) ==
                \/ hook_io.answers[i] = "Err"
                \/ /\ hook_io.plugins[i].kind = "script"
                   /\ hook_io.plugins[i].run = "crash"
        IN /\ \A i \in 1 .. n :
                 hook_io.plugins[i].run
                     \in {"spawn_failed", "nonzero_exit", "unparsable", "crash"} =>
                        hook_io.answers[i] \in {"Err", "Continue"}
           /\ \A i \in 1 .. n - 1 : (is_called(i) /\ failed(i)) => is_called(i + 1)
           /\ ~hook_io.proceed =>
                 \E i \in 1 .. n : /\ is_called(i)
                                   /\ hook_io.answers[i] \in {"Stop", "Skip"}

\* a captured command whose first plugin could not be spawned: the second
\* plugin was called and the command goes on to the monitor
C37_Witness ==
    /\ hook_io.op = "trigger"
    /\ hook_io.hook = "on_command_captured"
    /\ Len(hook_io.plugins) = 2
    /\ hook_io.plugins[1].run = "spawn_failed"
    /\ hook_io.answers[1] = "Err"
    /\ hook_io.called = <<1, 2>>
    /\ hook_io.proceed

\* C38: the list keyword_search, keyword_search_with_params or
\* semantic_search returns has at most 20 rows, no two rows of equal content
\* and non-increasing scores; every row is the highest-scoring candidate of
\* its content, and a content left out scores no higher than the last row.
C38_RankedDistinctTop20 ==
    rank_io.op # "none" =>
        LET rs == rank_io.results
            n == Len(rs)
            eligible == {i \in 1 .. Len(rank_io.rows) :
                            rank_io.rows[i].similarity > rank_io.threshold}
            contents == {rank_io.rows[i].content : i \in eligible}
        IN /\ n <= 20
           /\ n = Min({20, Cardinality(contents)})
           /\ \A i, j \in 1 .. n : i # j => rs[i].content # rs[j].content
           /\ \A i \in 1 .. n - 1 : rs[i].similarity >= rs[i + 1].similarity
           /\ \A i \in 1 .. n :
                 /\ \E k \in eligible : rank_io.rows[k] = rs[i]
                 /\ \A k \in eligible :
                       rank_io.rows[k].content = rs[i].content =>
                          rank_io.rows[k].similarity <= rs[i].similarity
           /\ \A k \in eligible :
                 (\A i \in 1 .. n : rs[i].content # rank_io.rows[k].content) =>
                    rank_io.rows[k].similarity <= rs[n].similarity

\* more than 20 contents among the candidates, one of them twice with the
\* better score second: 20 rows come back, and that content's row is the
\* second one
C38_Witness ==
    /\ rank_io.op = "keyword_search"
    /\ Len(rank_io.rows) > 21
    /\ Len(rank_io.results) = 20
    /\ \E i \in 1 .. 20, k \in 1 .. Len(rank_io.rows) :
          /\ rank_io.results[i].content = rank_io.rows[k].content
          /\ rank_io.results[i].id > rank_io.rows[k].id

\* C39: a step taken while the shell capture toggle is off changes no shell
\* row of table entries, and a step taken while the clipboard toggle is off
\* changes no clipboard row; the initial history load of run_service included.
C39_TogglesGateCapture ==
    [][/\ ~settings.capture_shell => ShellRows(entries') = ShellRows(entries)
       /\ ~settings.capture_clipboard => ClipRows(entries') = ClipRows(entries)]_vars

\* the tokens of a query that are neither stop words nor of length <= 2
RECURSIVE SignificantTokens(_)
SignificantTokens(ws) ==
    IF ws = <<>> THEN <<>>
    ELSE IF Head(ws) \in StopWords \/ Len(Head(ws)) <= 2
    THEN SignificantTokens(Tail(ws))
    ELSE <<Head(ws)>> \o SignificantTokens(Tail(ws))

\* two compared queries that differ only in stop words and in tokens of
\* length <= 2, and name the same temporal bucket
DifferInIgnoredTokensOnly ==
    /\ fp_io.op = "similarity"
    /\ fp_io.a # fp_io.b
    /\ SignificantTokens(split_whitespace(to_lowercase(fp_io.a)))
          = SignificantTokens(split_whitespace(to_lowercase(fp_io.b)))
    /\ from_query(fp_io.a).temporal = from_query(fp_io.b).temporal

\* C40 as stated: two queries that differ only in stop words and tokens of
\* length <= 2 and name the same temporal bucket get the same keyword set,
\* and their similarity exceeds 0.8.
C40_StopWordsIgnored ==
    DifferInIgnoredTokensOnly =>
        /\ from_query(fp_io.a).keywords = from_query(fp_io.b).keywords
        /\ fp_io.score > 8000

\* C40 as amended: such queries get the same keyword set and, when that set
\* is not empty, their similarity exceeds 0.8.
C40_StopWordsIgnoredWithKeywords ==
    DifferInIgnoredTokensOnly =>
        /\ from_query(fp_io.a).keywords = from_query(fp_io.b).keywords
        /\ from_query(fp_io.a).keywords # {} => fp_io.score > 8000

\* 'ssh yesterday' compared with 'show me ssh from yesterday'
C40_Witness ==
    /\ DifferInIgnoredTokensOnly
    /\ fp_io.a = <<"s", "s", "h", " ", "y", "e", "s", "t", "e", "r", "d", "a", "y">>
    /\ Len(fp_io.b) > Len(fp_io.a)
    /\ from_query(fp_io.b).keywords
          = {<<"s", "s", "h">>, <<"y", "e", "s", "t", "e", "r", "d", "a", "y">>}
    /\ fp_io.score = 8500

=========================================================================
